---- MODULE Spec2Model ----
(***************************************************************************)
(* A model of the Yarn Spinner virtual machine of DrJosh9000/yarn (vm.go): *)
(* the execution state, SetNode, the Run instruction loop and the opcode   *)
(* handlers, together with a DialogueHandler whose return values are       *)
(* chosen nondeterministically.                                            *)
(***************************************************************************)
EXTENDS Integers, Sequences, FiniteSets, TLC

VARIABLES program, state, vars, calls, phase, result, detail, runs

vmvars == <<program, state, vars, calls, phase, result, detail, runs>>

\* The AsyncAdapter: its state field, its message channel, the goroutine in
\* Run (vmth), the goroutines calling Go, GoWithChoice and Abort (callers:
\* the call in progress or the last one returned), the number of
\* transitions to Running that Go and GoWithChoice have made (continues),
\* the events the VM has sent to the adapter (issued), those the adapter
\* has passed to the async handler (delivered), and what Run returned
\* (aresult).
VARIABLES astate, msgCh, vmth, callers, continues, issued, delivered, aresult

avars == <<astate, msgCh, vmth, callers, continues, issued, delivered, aresult>>

\* A MapVariableStorage (its mutex and its map), the goroutines calling its
\* methods, and the contents the storage has after the writing calls that
\* have returned, applied one after another (done).
VARIABLES storage, goroutines, done

stvars == <<storage, goroutines, done>>

\* A StringTableRow (its Text and the unexported origText and parsedText),
\* the goroutines calling Render on it (renders), and, for each of two
\* Render calls made one after the other, the lineRenderer of the call
\* (lr), the AttributedString it returned (astr) and the events
\* ScanAttribEvents visited on it (visited).
VARIABLES row, renders, lr, astr, visited

rvars == <<row, renders, lr, astr, visited>>

----------------------------------------------------------------------------
(* Bounds of the model.                                                    *)

\* Instructions executed in one Run before the model stops following it.
MaxSteps == 8
\* Number of Run calls made on the same VirtualMachine value.
MaxRuns == 1
\* Number of times the Command handler calls SetNode in one Run.
MaxJumps == 1

----------------------------------------------------------------------------
(* Values (interface{} on the stack): null, bool, float32, string.         *)

Null == [t |-> "null", s |-> "", b |-> FALSE, n |-> 0]
StringValue(x) == [t |-> "string", s |-> x, b |-> FALSE, n |-> 0]
BoolValue(x) == [t |-> "bool", s |-> "", b |-> x, n |-> 0]
FloatValue(x) == [t |-> "float", s |-> "", b |-> FALSE, n |-> x]

\* ConvertToBool: nil -> false, bool -> itself, number -> non-zero,
\* string -> non-empty.  It has no failing case on the value union.
ConvertToBool(x) ==
  CASE x.t = "null" -> FALSE
    [] x.t = "bool" -> x.b
    [] x.t = "float" -> x.n # 0
    [] x.t = "string" -> x.s # ""

\* ConvertToString: nil -> "null", bool -> "True"/"False", else fmt.Sprint.
ConvertToString(x) ==
  CASE x.t = "null" -> "null"
    [] x.t = "bool" -> (IF x.b THEN "True" ELSE "False")
    [] x.t = "float" -> ToString(x.n)
    [] x.t = "string" -> x.s

\* The strings strconv.Atoi and strconv.ParseFloat accept, among those the
\* model uses, and the number each denotes.
Numerals == [s \in {"0", "1", "2"} |-> CASE s = "0" -> 0 [] s = "1" -> 1 [] s = "2" -> 2]

\* ConvertToInt: nil -> 0, bool -> 0/1, number -> truncated (the numbers of
\* the model are whole), string -> strconv.Atoi.  err is named below.
ConvertToInt(x) ==
  CASE x.t = "null" -> [x |-> 0, err |-> "nil"]
    [] x.t = "bool" -> [x |-> IF x.b THEN 1 ELSE 0, err |-> "nil"]
    [] x.t = "float" -> [x |-> x.n, err |-> "nil"]
    [] x.t = "string" ->
         IF x.s \in DOMAIN Numerals THEN [x |-> Numerals[x.s], err |-> "nil"]
         ELSE [x |-> 0, err |-> "invalid syntax"]

\* ConvertToFloat32: nil -> 0, bool -> 0/1, number -> itself, string ->
\* strconv.ParseFloat.
ConvertToFloat32(x) ==
  CASE x.t = "null" -> [x |-> FloatValue(0), err |-> "nil"]
    [] x.t = "bool" -> [x |-> FloatValue(IF x.b THEN 1 ELSE 0), err |-> "nil"]
    [] x.t = "float" -> [x |-> x, err |-> "nil"]
    [] x.t = "string" ->
         IF x.s \in DOMAIN Numerals THEN [x |-> FloatValue(Numerals[x.s]), err |-> "nil"]
         ELSE [x |-> FloatValue(0), err |-> "invalid syntax"]

----------------------------------------------------------------------------
(* Errors.  An error is modelled by the sentinel it wraps (errors.Is);     *)
(* "nil" is the nil error.  HandlerErr is an error made by the handler.    *)

NoErr == "nil"
Stop == "stop"
HandlerErr == "handler error"
ErrNilDialogueHandler == "nil dialogue handler"
ErrNilVariableStorage == "nil variable storage"
ErrMissingProgram == "missing or empty program"
ErrNoOptions == "no options were added"
ErrStackUnderflow == "stack underflow"
ErrWrongType == "wrong type"
ErrNodeNotFound == "node not found"
ErrLabelNotFound == "label not found"
ErrFunctionNotFound == "function not found"
ErrFunctionArgMismatch == "arg mismatch"
\* strconv.ErrSyntax, returned by Atoi and ParseFloat.
ErrSyntax == "invalid syntax"
\* An error made by a function of the FuncMap.
FuncErr == "function error"
\* fmt.Errorf without %w: "popping %d items", "selected option %d out of bounds"
ErrNegativeCount == "popping negative items"
ErrOutOfBounds == "selected option out of bounds"

\* What a handler method may return.
HandlerRets == {NoErr, Stop, HandlerErr}

----------------------------------------------------------------------------
(* Programs.                                                               *)

\* An absent optional operand.
NoOperand == -1

\* Instruction: opcode plus operands. a = first string operand, b = second
\* string operand (ADD_OPTION destination), n = substitution count operand
\* (NoOperand when the operand list stops before it), d = bool operand
\* (PUSH_BOOL value, ADD_OPTION condition flag), f = float operand.
Inst(op, a, b, n, d, f) ==
  [Opcode |-> op, a |-> a, b |-> b, n |-> n, d |-> d, f |-> f]

Op0(op) == Inst(op, "", "", NoOperand, FALSE, 0)
OpS(op, a) == Inst(op, a, "", NoOperand, FALSE, 0)

Label(k, i) == [name |-> k, idx |-> i]

Body(is, ls) == [Instructions |-> is, Labels |-> ls]

\* S1 of the spec with an instruction after STOP.
BodyLine ==
  Body(<<Op0("PUSH_NULL"), OpS("RUN_LINE", "hello"), Op0("STOP"),
         OpS("RUN_LINE", "after")>>, {})

\* S4: two options, the choice, then RUN_NODE.
BodyChoice ==
  Body(<<Inst("ADD_OPTION", "o1", "A", NoOperand, FALSE, 0),
         Inst("ADD_OPTION", "o2", "B", 0, FALSE, 0),
         Op0("SHOW_OPTIONS"), Op0("RUN_NODE")>>, {})

\* SHOW_OPTIONS with nothing added.
BodyNoOptions == Body(<<Op0("SHOW_OPTIONS"), OpS("RUN_LINE", "after")>>, {})

\* A command (the handler may call SetNode), then a line.
BodyCommand ==
  Body(<<OpS("PUSH_STRING", "x"), Inst("RUN_COMMAND", "jump {0}", "", 1, FALSE, 0),
         OpS("RUN_LINE", "after")>>, {})

\* JUMP through the stack, JUMP_IF_FALSE to a label at the end of the node.
BodyJumps ==
  Body(<<OpS("PUSH_STRING", "skip"), Op0("JUMP"), OpS("RUN_LINE", "never"),
         Op0("PUSH_NULL"), OpS("JUMP_IF_FALSE", "end"), Op0("POP")>>,
       {Label("skip", 3), Label("end", 6)})

\* A loop: JUMP_TO back to the top; a true condition falls through.
BodyLoop ==
  Body(<<Inst("PUSH_BOOL", "", "", NoOperand, TRUE, 0), OpS("JUMP_IF_FALSE", "top"),
         Op0("POP"), OpS("JUMP_TO", "top")>>, {Label("top", 0)})

\* Labels that do not exist in the node.
BodyBadJump ==
  Body(<<Op0("PUSH_NULL"), OpS("JUMP_IF_FALSE", "nowhere")>>, {Label("top", 0)})

\* An option is pending when RUN_NODE leaves the node.
BodyLeave ==
  Body(<<Inst("ADD_OPTION", "o1", "A", NoOperand, FALSE, 0), OpS("PUSH_STRING", "B"),
         Op0("RUN_NODE"), Op0("SHOW_OPTIONS")>>, {})

\* An option with a substitution and a condition stays pending while other
\* instructions run.
BodyKeep ==
  Body(<<Inst("PUSH_BOOL", "", "", NoOperand, FALSE, 0), OpS("PUSH_STRING", "s"),
         Inst("ADD_OPTION", "o1", "B", 1, TRUE, 0),
         Inst("PUSH_FLOAT", "", "", NoOperand, FALSE, 1), OpS("STORE_VARIABLE", "$x"),
         Op0("POP"), Op0("SHOW_OPTIONS"), Op0("RUN_NODE")>>, {})

\* Variables, then a POP that underflows.
BodyVars ==
  Body(<<OpS("PUSH_VARIABLE", "$x"), OpS("PUSH_VARIABLE", "$y"), Op0("POP"),
         OpS("JUMP_TO", "nowhere")>>, {})

\* RUN_NODE of a name that is not a node, a wrong type, an empty stack.
BodyMissing ==
  Body(<<OpS("PUSH_STRING", "Z"), Op0("RUN_NODE")>>, {})

\* The condition of an option is not a bool; then a POP that underflows.
BodyUnderflow ==
  Body(<<OpS("PUSH_STRING", "s"), Inst("ADD_OPTION", "o1", "A", 0, TRUE, 0),
         Op0("POP")>>, {})

BodyEmpty == Body(<<>>, {})

\* A function of the FuncMap that calls SetNode and returns its error.
BodyCallJump ==
  Body(<<OpS("PUSH_STRING", "B"), Inst("PUSH_FLOAT", "", "", NoOperand, FALSE, 1),
         OpS("CALL_FUNC", "jump"), OpS("RUN_LINE", "after")>>, {})

\* A function of the FuncMap that calls SetNode and returns a value.
BodyCallTry ==
  Body(<<OpS("PUSH_STRING", "A"), Inst("PUSH_FLOAT", "", "", NoOperand, FALSE, 1),
         OpS("CALL_FUNC", "try_jump"), Op0("POP")>>, {})

Bodies ==
  {BodyLine, BodyChoice, BodyNoOptions, BodyCommand, BodyJumps, BodyLoop,
   BodyBadJump, BodyLeave, BodyKeep, BodyVars, BodyMissing, BodyUnderflow,
   BodyEmpty, BodyCallJump, BodyCallTry}

\* Program.Nodes: the node names of the program.
NodeNames == {"A", "B"}
\* Names a caller or the stack may hold, including one that is no node.
Names == NodeNames \cup {"Z"}

\* Program.InitialValues.
VarNames == {"$x", "$y"}
Unset == [t |-> "unset", s |-> "", b |-> FALSE, n |-> 0]
InitialValues == [k \in VarNames |-> IF k = "$y" THEN BoolValue(TRUE) ELSE Unset]

HasLabel(node, k) == \E l \in program[node].Labels : l.name = k
LabelOf(node, k) == (CHOOSE l \in program[node].Labels : l.name = k).idx

----------------------------------------------------------------------------
(* Execution state (type state) and the record of handler calls.           *)

\* state.node == nil
NoNode == ""

NewState(name) == [node |-> name, pc |-> 0, stack |-> <<>>, options |-> <<>>]

NoLine == [ID |-> "", Substitutions |-> <<>>]

\* One handler call: method, argument, return value, and the execution
\* state at the moment of the call.  nested: made by a SetNode that the
\* Command handler called.  idx: the index returned by Options.
Call(m, arg, ids, line, opts, ret, idx, nested, at) ==
  [m |-> m, arg |-> arg, ids |-> ids, line |-> line, opts |-> opts,
   ret |-> ret, idx |-> idx, nested |-> nested, at |-> at]

\* An instruction fetched and dispatched by the loop.
Exec(op, at) == Call("exec", op, <<>>, NoLine, <<>>, NoErr, 0, FALSE, at)

IsExec(c) == c.m = "exec"

RECURSIVE ExecCount(_)
ExecCount(cs) ==
  IF cs = <<>> THEN 0
  ELSE (IF IsExec(cs[Len(cs)]) THEN 1 ELSE 0) + ExecCount(SubSeq(cs, 1, Len(cs) - 1))

\* The Command calls so far in which the handler called SetNode of a node.
JumpCount(cs) ==
  Cardinality({i \in 1 .. Len(cs) - 1 : cs[i].m = "Command" /\ cs[i + 1].nested})

\* What an operation hands back: new state, handler calls made, error, and
\* the names the message of the error is formatted with.
Ret(st, cs, err) == [state |-> st, calls |-> cs, err |-> err, info |-> <<>>]
RetNaming(st, err, names) == [state |-> st, calls |-> <<>>, err |-> err, info |-> names]

push(st, x) == [st EXCEPT !.stack = Append(@, x)]

RECURSIVE LineIDs(_)
\* The opA ids of the RUN_LINE and ADD_OPTION instructions, in order.
LineIDs(is) ==
  IF is = <<>> THEN <<>>
  ELSE LET rest == LineIDs(SubSeq(is, 1, Len(is) - 1))
           last == is[Len(is)]
       IN IF last.Opcode \in {"RUN_LINE", "ADD_OPTION"}
          THEN Append(rest, last.a) ELSE rest

\* SetNode that forgets to designate the current node complete.
SetNodeNoComplete(st, name, r, nested) ==
  IF name \notin DOMAIN program THEN Ret(st, <<>>, ErrNodeNotFound)
  ELSE
    LET fresh == NewState(name)
        ns == Call("NodeStart", name, <<>>, NoLine, <<>>, r.ns, 0, nested, fresh)
        pl == Call("PrepareForLines", "", LineIDs(program[name].Instructions),
                   NoLine, <<>>, r.pl, 0, nested, fresh)
    IN IF r.ns # NoErr THEN Ret(fresh, <<ns>>, r.ns)
       ELSE Ret(fresh, <<ns, pl>>, r.pl)

\* SetNode that resets the state only after NodeStart has been called.
SetNodeResetsLate(st, name, r, nested) ==
  IF name \notin DOMAIN program THEN Ret(st, <<>>, ErrNodeNotFound)
  ELSE
    LET nc == IF st.node # NoNode
              THEN <<Call("NodeComplete", st.node, <<>>, NoLine, <<>>, r.nc, 0, nested, st)>>
              ELSE <<>>
        fresh == NewState(name)
        ns == Call("NodeStart", name, <<>>, NoLine, <<>>, r.ns, 0, nested, st)
        pl == Call("PrepareForLines", "", LineIDs(program[name].Instructions),
                   NoLine, <<>>, r.pl, 0, nested, fresh)
    IN IF st.node # NoNode /\ r.nc # NoErr THEN Ret(st, nc, r.nc)
       ELSE IF r.ns # NoErr THEN Ret(st, nc \o <<ns>>, r.ns)
       ELSE Ret(fresh, nc \o <<ns, pl>>, r.pl)

\* VirtualMachine.SetNode.  r.nc, r.ns, r.pl are what the handler returns
\* from NodeComplete, NodeStart and PrepareForLines.
SetNode(st, name, r, nested) ==
  IF name \notin DOMAIN program THEN Ret(st, <<>>, ErrNodeNotFound)
  ELSE
    LET nc == IF st.node # NoNode
              THEN <<Call("NodeComplete", st.node, <<>>, NoLine, <<>>, r.nc, 0, nested, st)>>
              ELSE <<>>
        fresh == NewState(name)
        ns == Call("NodeStart", name, <<>>, NoLine, <<>>, r.ns, 0, nested, fresh)
        pl == Call("PrepareForLines", "", LineIDs(program[name].Instructions),
                   NoLine, <<>>, r.pl, 0, nested, fresh)
    IN IF st.node # NoNode /\ r.nc # NoErr THEN Ret(st, nc, r.nc)
       ELSE IF r.ns # NoErr THEN Ret(fresh, nc \o <<ns>>, r.ns)
       ELSE Ret(fresh, nc \o <<ns, pl>>, r.pl)

\* The handler's returns during one SetNode.  A call is made only if the
\* calls before it returned nil, so the returns after the first non-nil one
\* are never asked for.
SetNodeRets ==
  {r \in [nc : HandlerRets, ns : HandlerRets, pl : HandlerRets] :
     /\ r.nc # NoErr => r.ns = NoErr
     /\ r.ns # NoErr => r.pl = NoErr
     /\ r.nc # NoErr => r.pl = NoErr}

----------------------------------------------------------------------------
(* Stack helpers of type state.                                            *)

Top(st) == st.stack[Len(st.stack)]
Popped(st) == [st EXCEPT !.stack = SubSeq(@, 1, Len(@) - 1)]

\* state.peek: the error, the value being Top(st) when there is none.
peekErr(st) == IF Len(st.stack) = 0 THEN ErrStackUnderflow ELSE NoErr

\* state.pop, popBool, popString: pop first, then check the type, so a
\* value of the wrong type is gone from the stack when the error returns.
popTyped(st, type) ==
  IF peekErr(st) # NoErr THEN [state |-> st, err |-> ErrStackUnderflow, x |-> Null]
  ELSE IF Top(st).t # type
       THEN [state |-> Popped(st), err |-> ErrWrongType, x |-> Top(st)]
       ELSE [state |-> Popped(st), err |-> NoErr, x |-> Top(st)]

popBool(st) == popTyped(st, "bool")
popString(st) == popTyped(st, "string")

\* state.peekString
peekStringErr(st) ==
  IF peekErr(st) # NoErr THEN ErrStackUnderflow
  ELSE IF Top(st).t # "string" THEN ErrWrongType ELSE NoErr

\* state.popNStrings
popNStrings(st, n) ==
  IF n < 0 THEN [state |-> st, err |-> ErrNegativeCount, ss |-> <<>>]
  ELSE IF n = 0 THEN [state |-> st, err |-> NoErr, ss |-> <<>>]
  ELSE IF n > Len(st.stack) THEN [state |-> st, err |-> ErrStackUnderflow, ss |-> <<>>]
  ELSE LET rem == Len(st.stack) - n
       IN [state |-> [st EXCEPT !.stack = SubSeq(@, 1, rem)], err |-> NoErr,
           ss |-> [i \in 1..n |-> ConvertToString(st.stack[rem + i])]]

\* The optional substitution-count operand of RUN_LINE, RUN_COMMAND and
\* ADD_OPTION: absent, nothing is popped.
popSubstitutions(st, inst) ==
  IF inst.n = NoOperand THEN [state |-> st, err |-> NoErr, ss |-> <<>>]
  ELSE popNStrings(st, inst.n)

----------------------------------------------------------------------------
(* The opcode handlers.  Each maps the state before the instruction and    *)
(* the handler's return values to the state after it, the handler calls    *)
(* made, and the error returned to the loop.                               *)

Advance(st) == [st EXCEPT !.pc = @ + 1]

\* JUMP_TO that looks the label up in the tables of all nodes.
execJumpToAnyNode(st, inst) ==
  IF \A n \in DOMAIN program : ~HasLabel(n, inst.a)
  THEN RetNaming(st, ErrLabelNotFound, <<inst.a, st.node>>)
  ELSE LET n == CHOOSE n \in DOMAIN program : HasLabel(n, inst.a)
       IN Ret([st EXCEPT !.pc = LabelOf(n, inst.a)], <<>>, NoErr)

execJumpTo(st, inst) ==
  IF ~HasLabel(st.node, inst.a)
  THEN RetNaming(st, ErrLabelNotFound, <<inst.a, st.node>>)
  ELSE Ret([st EXCEPT !.pc = LabelOf(st.node, inst.a)], <<>>, NoErr)

execJump(st) ==
  IF peekStringErr(st) # NoErr THEN Ret(st, <<>>, peekStringErr(st))
  ELSE IF ~HasLabel(st.node, Top(st).s)
       THEN RetNaming(st, ErrLabelNotFound, <<Top(st).s, st.node>>)
  ELSE Ret([st EXCEPT !.pc = LabelOf(st.node, Top(st).s)], <<>>, NoErr)

execRunLine(st, inst, ret) ==
  LET p == popSubstitutions(st, inst)
      line == [ID |-> inst.a, Substitutions |-> p.ss]
      c == Call("Line", inst.a, <<>>, line, <<>>, ret, 0, FALSE, p.state)
  IN IF p.err # NoErr THEN Ret(st, <<>>, p.err)
     ELSE IF ret # NoErr THEN Ret(p.state, <<c>>, ret)
     ELSE Ret(Advance(p.state), <<c>>, NoErr)

\* What the Command handler does: jump = NoNode, it returns ret; otherwise
\* it calls vm.SetNode(jump) and returns SetNode's error, or nil whatever
\* SetNode returned when swallow is set.
CommandBehaviours ==
  [ret : HandlerRets, jump : {NoNode}, swallow : {FALSE},
   sn : {[nc |-> NoErr, ns |-> NoErr, pl |-> NoErr]}]
  \cup [ret : {NoErr}, jump : Names, swallow : BOOLEAN, sn : SetNodeRets]

\* The command text is kept as the template and the substitutions that
\* strings.ReplaceAll puts into it.
execRunCommand(st, inst, h) ==
  LET p == popSubstitutions(st, inst)
      cmd == [ID |-> inst.a, Substitutions |-> p.ss]
      st1 == Advance(p.state)
      sn == SetNode(st1, h.jump, h.sn, TRUE)
      ret == IF h.jump = NoNode THEN h.ret
             ELSE IF h.swallow THEN NoErr ELSE sn.err
      c == Call("Command", inst.a, <<>>, cmd, <<>>, ret, 0, FALSE, st1)
  IN IF p.err # NoErr THEN Ret(st, <<>>, p.err)
     ELSE IF h.jump = NoNode THEN Ret(st1, <<c>>, ret)
     ELSE Ret(sn.state, <<c>> \o sn.calls, ret)

Option(id, line, dest, avail) ==
  [ID |-> id, Line |-> line, DestinationNode |-> dest, IsAvailable |-> avail]

\* ADD_OPTION that overwrites the buffer instead of appending to it.
execAddOptionReplaces(st, inst) ==
  LET p == popSubstitutions(st, inst)
      line == [ID |-> inst.a, Substitutions |-> p.ss]
      cp == popBool(p.state)
      st2 == IF inst.d THEN cp.state ELSE p.state
      avail == IF inst.d THEN cp.x.b ELSE TRUE
      opt == Option(0, line, inst.b, avail)
  IN IF p.err # NoErr THEN Ret(st, <<>>, p.err)
     ELSE IF inst.d /\ cp.err # NoErr THEN Ret(cp.state, <<>>, cp.err)
     ELSE Ret(Advance([st2 EXCEPT !.options = <<opt>>]), <<>>, NoErr)

\* ADD_OPTION that numbers the options from 1.
execAddOptionFromOne(st, inst) ==
  LET p == popSubstitutions(st, inst)
      line == [ID |-> inst.a, Substitutions |-> p.ss]
      cp == popBool(p.state)
      st2 == IF inst.d THEN cp.state ELSE p.state
      avail == IF inst.d THEN cp.x.b ELSE TRUE
      opt == Option(Len(st2.options) + 1, line, inst.b, avail)
  IN IF p.err # NoErr THEN Ret(st, <<>>, p.err)
     ELSE IF inst.d /\ cp.err # NoErr THEN Ret(cp.state, <<>>, cp.err)
     ELSE Ret(Advance([st2 EXCEPT !.options = Append(@, opt)]), <<>>, NoErr)

execAddOption(st, inst) ==
  LET p == popSubstitutions(st, inst)
      line == [ID |-> inst.a, Substitutions |-> p.ss]
      cp == popBool(p.state)
      st2 == IF inst.d THEN cp.state ELSE p.state
      avail == IF inst.d THEN cp.x.b ELSE TRUE
      opt == Option(Len(st2.options), line, inst.b, avail)
  IN IF p.err # NoErr THEN Ret(st, <<>>, p.err)
     ELSE IF inst.d /\ cp.err # NoErr THEN Ret(cp.state, <<>>, cp.err)
     ELSE Ret(Advance([st2 EXCEPT !.options = Append(@, opt)]), <<>>, NoErr)

\* What the handler returns from DialogueComplete (dc), called when the
\* buffer is empty, and otherwise from Options (the index and the error).
OptionsBehaviours(st) ==
  IF Len(st.options) = 0 THEN [dc : HandlerRets, ret : {NoErr}, idx : {0}]
  ELSE [dc : {NoErr}, ret : {NoErr}, idx : -1 .. Len(st.options)]
       \cup [dc : {NoErr}, ret : {Stop, HandlerErr}, idx : {0}]

\* SHOW_OPTIONS that pushes the destination of the first option whatever
\* index was chosen.
execShowOptionsFirst(st, h) ==
  LET dc == Call("DialogueComplete", "", <<>>, NoLine, <<>>, h.dc, 0, FALSE, st)
      oc == Call("Options", "", <<>>, NoLine, st.options, h.ret, h.idx, FALSE, st)
  IN IF Len(st.options) = 0 THEN Ret(st, <<dc>>, ErrNoOptions)
     ELSE IF h.ret # NoErr THEN Ret(st, <<oc>>, h.ret)
     ELSE IF h.idx < 0 \/ h.idx >= Len(st.options) THEN Ret(st, <<oc>>, ErrOutOfBounds)
     ELSE Ret(Advance([push(st, StringValue(st.options[1].DestinationNode))
                         EXCEPT !.options = <<>>]), <<oc>>, NoErr)

\* SHOW_OPTIONS that treats an empty buffer as a machine stop.
execShowOptionsStops(st, h) ==
  LET dc == Call("DialogueComplete", "", <<>>, NoLine, <<>>, h.dc, 0, FALSE, st)
      oc == Call("Options", "", <<>>, NoLine, st.options, h.ret, h.idx, FALSE, st)
  IN IF Len(st.options) = 0 THEN Ret(st, <<dc>>, Stop)
     ELSE IF h.ret # NoErr THEN Ret(st, <<oc>>, h.ret)
     ELSE IF h.idx < 0 \/ h.idx >= Len(st.options) THEN Ret(st, <<oc>>, ErrOutOfBounds)
     ELSE Ret(Advance([push(st, StringValue(st.options[h.idx + 1].DestinationNode))
                         EXCEPT !.options = <<>>]), <<oc>>, NoErr)

execShowOptions(st, h) ==
  LET dc == Call("DialogueComplete", "", <<>>, NoLine, <<>>, h.dc, 0, FALSE, st)
      oc == Call("Options", "", <<>>, NoLine, st.options, h.ret, h.idx, FALSE, st)
  IN IF Len(st.options) = 0 THEN Ret(st, <<dc>>, ErrNoOptions)
     ELSE IF h.ret # NoErr THEN Ret(st, <<oc>>, h.ret)
     ELSE IF h.idx < 0 \/ h.idx >= Len(st.options) THEN Ret(st, <<oc>>, ErrOutOfBounds)
     ELSE Ret(Advance([push(st, StringValue(st.options[h.idx + 1].DestinationNode))
                         EXCEPT !.options = <<>>]), <<oc>>, NoErr)

execPushString(st, inst) == Ret(Advance(push(st, StringValue(inst.a))), <<>>, NoErr)
execPushFloat(st, inst) == Ret(Advance(push(st, FloatValue(inst.f))), <<>>, NoErr)
execPushBool(st, inst) == Ret(Advance(push(st, BoolValue(inst.d))), <<>>, NoErr)
execPushNull(st) == Ret(Advance(push(st, Null)), <<>>, NoErr)

\* JUMP_IF_FALSE that advances PC after setting it to the label.
execJumpIfFalseAdvances(st, inst) ==
  IF peekErr(st) # NoErr THEN Ret(st, <<>>, ErrStackUnderflow)
  ELSE IF ConvertToBool(Top(st)) THEN Ret(Advance(st), <<>>, NoErr)
  ELSE IF ~HasLabel(st.node, inst.a) THEN Ret(st, <<>>, ErrLabelNotFound)
  ELSE Ret(Advance([st EXCEPT !.pc = LabelOf(st.node, inst.a)]), <<>>, NoErr)

execJumpIfFalse(st, inst) ==
  IF peekErr(st) # NoErr THEN Ret(st, <<>>, ErrStackUnderflow)
  ELSE IF ConvertToBool(Top(st)) THEN Ret(Advance(st), <<>>, NoErr)
  ELSE IF ~HasLabel(st.node, inst.a)
       THEN RetNaming(st, ErrLabelNotFound, <<inst.a, st.node>>)
  ELSE Ret([st EXCEPT !.pc = LabelOf(st.node, inst.a)], <<>>, NoErr)

\* POP that leaves an empty stack alone and goes on.
execPopIgnoresEmpty(st) ==
  IF peekErr(st) # NoErr THEN Ret(Advance(st), <<>>, NoErr)
  ELSE Ret(Advance(Popped(st)), <<>>, NoErr)

execPop(st) ==
  IF peekErr(st) # NoErr THEN Ret(st, <<>>, ErrStackUnderflow)
  ELSE Ret(Advance(Popped(st)), <<>>, NoErr)

\* PUSH_VARIABLE that asks Program.InitialValues before Vars.
execPushVariableInitialFirst(st, inst, vs) ==
  IF InitialValues[inst.a] # Unset THEN Ret(Advance(push(st, InitialValues[inst.a])), <<>>, NoErr)
  ELSE IF vs[inst.a] = Unset THEN Ret(Advance(push(st, Null)), <<>>, NoErr)
  ELSE Ret(Advance(push(st, vs[inst.a])), <<>>, NoErr)

\* Vars.GetValue first, then Program.InitialValues, then null.
execPushVariable(st, inst, vs) ==
  IF vs[inst.a] # Unset THEN Ret(Advance(push(st, vs[inst.a])), <<>>, NoErr)
  ELSE IF InitialValues[inst.a] = Unset THEN Ret(Advance(push(st, Null)), <<>>, NoErr)
  ELSE Ret(Advance(push(st, InitialValues[inst.a])), <<>>, NoErr)

\* STORE_VARIABLE that pops the value it stores.
execStoreVariablePops(st, inst) ==
  IF peekErr(st) # NoErr THEN Ret(st, <<>>, ErrStackUnderflow)
  ELSE Ret(Advance(Popped(st)), <<>>, NoErr)

execStoreVariable(st, inst) ==
  IF peekErr(st) # NoErr THEN Ret(st, <<>>, ErrStackUnderflow)
  ELSE Ret(Advance(st), <<>>, NoErr)

\* Vars after STORE_VARIABLE.
storeVars(st, inst, vs) ==
  IF peekErr(st) # NoErr THEN vs ELSE [vs EXCEPT ![inst.a] = Top(st)]

\* STOP that lets the loop go on.
execStopContinues(st) == Ret(Advance(st), <<>>, NoErr)

execStop(st) == Ret(st, <<>>, Stop)

execRunNode(st, r) ==
  LET p == popString(st)
      sn == SetNode(p.state, p.x.s, r, FALSE)
  IN IF p.err # NoErr THEN Ret(p.state, <<>>, p.err) ELSE sn

----------------------------------------------------------------------------
(* CALL_FUNC and the FuncMap.                                              *)

\* reflect.Type of a FuncMap entry: its kind, parameter types (In, the
\* element type standing for a final variadic parameter), IsVariadic, and
\* result types (Out).
FuncType(kind, in, variadic, out) ==
  [Kind |-> kind, In |-> in, Variadic |-> variadic, Out |-> out]

\* vm.FuncMap after the merge in Run: functions of the default map, of the
\* tests, and of a caller (jump, try_jump, pair, version).
FuncMap ==
  [f \in {"Number.Add", "Number.UnaryMinus", "Number.Modulo", "round_places",
          "last_value", "assert", "jump", "try_jump", "pair", "version"} |->
     CASE f = "Number.Modulo" -> FuncType("func", <<"int", "int">>, FALSE, <<"float32">>)
       [] f = "Number.Add" -> FuncType("func", <<"float32", "float32">>, FALSE, <<"float32">>)
       [] f = "Number.UnaryMinus" -> FuncType("func", <<"float32">>, FALSE, <<"float32">>)
       [] f = "round_places" -> FuncType("func", <<"float32", "uint">>, FALSE, <<"float32">>)
       [] f = "last_value" -> FuncType("func", <<"interface">>, TRUE, <<"interface", "error">>)
       [] f = "assert" -> FuncType("func", <<"interface">>, FALSE, <<"error">>)
       [] f = "jump" -> FuncType("func", <<"string">>, FALSE, <<"error">>)
       [] f = "try_jump" -> FuncType("func", <<"string">>, FALSE, <<"bool">>)
       [] f = "pair" -> FuncType("func", <<>>, FALSE, <<"bool", "bool">>)
       [] f = "version" -> FuncType("string", <<>>, FALSE, <<>>)]

\* A Go int, the parameter type of Number.Modulo.
IntValue(n) == [t |-> "int", s |-> "", b |-> FALSE, n |-> n]

\* The run-time panic of an integer division by zero, which nothing in the
\* package recovers: the goroutine that called Run unwinds.
Panic == "panic: runtime error: integer divide by zero"

\* reflect.Zero(argtype), for a nil parameter.
Zero(argtype) ==
  CASE argtype = "string" -> StringValue("")
    [] argtype = "float32" -> FloatValue(0)
    [] argtype = "bool" -> BoolValue(FALSE)
    [] argtype = "uint" -> [t |-> "uint", s |-> "", b |-> FALSE, n |-> 0]
    [] argtype = "int" -> IntValue(0)
    [] OTHER -> Null

\* reflect.TypeOf(param).AssignableTo(argtype)
AssignableTo(x, argtype) ==
  \/ argtype = "interface"
  \/ x.t = "string" /\ argtype = "string"
  \/ x.t = "float" /\ argtype = "float32"
  \/ x.t = "bool" /\ argtype = "bool"

\* One turn of the parameter loop after the pop: nil becomes the zero value,
\* an assignable value is kept, otherwise a conversion by argtype.  A failed
\* conversion returns the error of the conversion itself.
ConvertParam(x, argtype) ==
  IF x = Null THEN [x |-> Zero(argtype), err |-> NoErr]
  ELSE IF AssignableTo(x, argtype) THEN [x |-> x, err |-> NoErr]
  ELSE CASE argtype = "string" -> [x |-> StringValue(ConvertToString(x)), err |-> NoErr]
         [] argtype = "float32" -> ConvertToFloat32(x)
         [] argtype = "int" ->
              LET i == ConvertToInt(x) IN [x |-> IntValue(i.x), err |-> i.err]
         [] argtype = "bool" -> [x |-> BoolValue(ConvertToBool(x)), err |-> NoErr]
         [] OTHER -> [x |-> x, err |-> ErrFunctionArgMismatch]

RECURSIVE popParams(_, _, _)
\* The loop "for arg > 0": pops parameter arg-1 from the top of the stack,
\* converts it, then goes on to the one below.
popParams(st, ft, arg) ==
  IF arg <= 0 THEN [state |-> st, err |-> NoErr, ps |-> <<>>]
  ELSE IF peekErr(st) # NoErr THEN [state |-> st, err |-> ErrStackUnderflow, ps |-> <<>>]
  ELSE LET argtype == IF ft.Variadic /\ arg - 1 >= Len(ft.In) - 1
                      THEN ft.In[Len(ft.In)] ELSE ft.In[arg]
           c == ConvertParam(Top(st), argtype)
           rest == popParams(Popped(st), ft, arg - 1)
       IN IF c.err # NoErr THEN [state |-> Popped(st), err |-> c.err, ps |-> <<>>]
          ELSE IF rest.err # NoErr THEN rest
          ELSE [state |-> rest.state, err |-> NoErr, ps |-> Append(rest.ps, c.x)]

\* reflect.ValueOf(function).Call(params): what the function does to the VM
\* (jump and try_jump call vm.SetNode), the results before the error result
\* (out) and the error result.
Invoke(f, ps, st, r) ==
  CASE f = "Number.Add" ->
         [state |-> st, calls |-> <<>>, out |-> <<FloatValue(ps[1].n + ps[2].n)>>, err |-> NoErr]
    [] f = "Number.UnaryMinus" ->
         [state |-> st, calls |-> <<>>, out |-> <<FloatValue(0 - ps[1].n)>>, err |-> NoErr]
    [] f = "Number.Modulo" ->
         IF ps[2].n = 0
           THEN [state |-> st, calls |-> <<>>, out |-> <<>>, err |-> Panic]
           ELSE [state |-> st, calls |-> <<>>,
                 out |-> <<FloatValue(ps[1].n % ps[2].n)>>, err |-> NoErr]
    [] f = "round_places" ->
         [state |-> st, calls |-> <<>>, out |-> <<ps[1]>>, err |-> NoErr]
    [] f = "last_value" ->
         IF ps = <<>> THEN [state |-> st, calls |-> <<>>, out |-> <<Null>>, err |-> FuncErr]
         ELSE [state |-> st, calls |-> <<>>, out |-> <<ps[Len(ps)]>>, err |-> NoErr]
    [] f = "assert" ->
         [state |-> st, calls |-> <<>>, out |-> <<>>,
          err |-> IF ConvertToBool(ps[1]) THEN NoErr ELSE FuncErr]
    [] f = "jump" ->
         LET sn == SetNode(st, ps[1].s, r, TRUE)
         IN [state |-> sn.state, calls |-> sn.calls, out |-> <<>>, err |-> sn.err]
    [] f = "try_jump" ->
         LET sn == SetNode(st, ps[1].s, r, TRUE)
         IN [state |-> sn.state, calls |-> sn.calls,
             out |-> <<BoolValue(sn.err = NoErr)>>, err |-> NoErr]

\* CALL_FUNC that advances PC only after the function has returned.
execCallFuncAdvancesLate(st, inst, r) ==
  IF inst.a \notin DOMAIN FuncMap THEN Ret(st, <<>>, ErrFunctionNotFound)
  ELSE IF FuncMap[inst.a].Kind # "func" THEN Ret(st, <<>>, ErrWrongType)
  ELSE IF peekErr(st) # NoErr THEN Ret(st, <<>>, ErrStackUnderflow)
  ELSE
    LET ft == FuncMap[inst.a]
        gotArgc == ConvertToInt(Top(st))
        st0 == Popped(st)
        p == popParams(st0, ft, gotArgc.x)
        v == Invoke(inst.a, p.ps, p.state, r)
        c == Call("func", inst.a, <<>>, NoLine, p.ps, v.err, 0, FALSE, p.state)
    IN IF gotArgc.err # NoErr THEN Ret(st0, <<>>, gotArgc.err)
       ELSE IF ft.Variadic /\ gotArgc.x < Len(ft.In) - 1
            THEN Ret(st0, <<>>, ErrFunctionArgMismatch)
       ELSE IF ~ft.Variadic /\ gotArgc.x # Len(ft.In)
            THEN Ret(st0, <<>>, ErrFunctionArgMismatch)
       ELSE IF Len(ft.Out) = 2 /\ ft.Out[2] # "error"
            THEN Ret(st0, <<>>, ErrFunctionArgMismatch)
       ELSE IF Len(ft.Out) > 2 THEN Ret(st0, <<>>, ErrFunctionArgMismatch)
       ELSE IF p.err # NoErr THEN Ret(p.state, <<>>, p.err)
       ELSE IF v.err = Panic THEN Ret(v.state, <<c>>, Panic)
       ELSE IF Len(ft.Out) > 0 /\ ft.Out[Len(ft.Out)] = "error" /\ v.err # NoErr
            THEN Ret(v.state, <<c>> \o v.calls, v.err)
       ELSE IF Len(ft.Out) > 0 /\ ft.Out[1] # "error"
            THEN Ret(Advance(push(v.state, v.out[1])), <<c>> \o v.calls, NoErr)
       ELSE Ret(Advance(v.state), <<c>> \o v.calls, NoErr)

\* VirtualMachine.execCallFunc.  r: what the handler returns during a
\* SetNode that the function calls.
execCallFunc(st, inst, r) ==
  IF inst.a \notin DOMAIN FuncMap THEN Ret(st, <<>>, ErrFunctionNotFound)
  ELSE IF FuncMap[inst.a].Kind # "func" THEN Ret(st, <<>>, ErrWrongType)
  ELSE IF peekErr(st) # NoErr THEN Ret(st, <<>>, ErrStackUnderflow)
  ELSE
    LET ft == FuncMap[inst.a]
        gotArgc == ConvertToInt(Top(st))
        st0 == Popped(st)
        p == popParams(st0, ft, gotArgc.x)
        st1 == Advance(p.state)
        v == Invoke(inst.a, p.ps, st1, r)
        c == Call("func", inst.a, <<>>, NoLine, p.ps, v.err, 0, FALSE, st1)
    IN IF gotArgc.err # NoErr THEN Ret(st0, <<>>, gotArgc.err)
       ELSE IF ft.Variadic /\ gotArgc.x < Len(ft.In) - 1
            THEN Ret(st0, <<>>, ErrFunctionArgMismatch)
       ELSE IF ~ft.Variadic /\ gotArgc.x # Len(ft.In)
            THEN Ret(st0, <<>>, ErrFunctionArgMismatch)
       ELSE IF Len(ft.Out) = 2 /\ ft.Out[2] # "error"
            THEN Ret(st0, <<>>, ErrFunctionArgMismatch)
       ELSE IF Len(ft.Out) > 2 THEN Ret(st0, <<>>, ErrFunctionArgMismatch)
       ELSE IF p.err # NoErr THEN Ret(p.state, <<>>, p.err)
       ELSE IF v.err = Panic THEN Ret(v.state, <<c>>, Panic)
       ELSE IF Len(ft.Out) > 0 /\ ft.Out[Len(ft.Out)] = "error" /\ v.err # NoErr
            THEN Ret(v.state, <<c>> \o v.calls, v.err)
       ELSE IF Len(ft.Out) > 0 /\ ft.Out[1] # "error"
            THEN Ret(push(v.state, v.out[1]), <<c>> \o v.calls, NoErr)
       ELSE Ret(v.state, <<c>> \o v.calls, NoErr)

----------------------------------------------------------------------------
(* VirtualMachine.Run as a state machine.                                  *)
(* phase: "idle" before the first Run; "loop" inside the instruction loop; *)
(* "exit" after the loop was left by Stop; "done" once Run has returned    *)
(* (result holds the returned error); "panic" once a function has          *)
(* panicked, after which Run never returns.                                *)

Pending == "pending"

\* VMState
VMStateRunning == "Running"
VMStatePaused == "Paused"
VMStatePausedOptions == "PausedOptions"
VMStateStopped == "Stopped"

\* The goroutine that runs the VM (it also runs the callbacks of the async
\* handler), and another goroutine of the program.
Threads == {"vm", "user"}

\* Run, or a call, has not returned.
NoResult == [kind |-> Pending, got |-> "", want |-> "", next |-> ""]

\* No message to send.
NoMsg == [type |-> "", choice |-> 0, err |-> NoResult]

\* A goroutine that has not called the adapter: pc is where it is in a
\* call, op the method, at the state the call met, err what it returned,
\* n the calls begun.
NoCall ==
  [pc |-> "idle", op |-> "", at |-> "", want |-> "", msg |-> NoMsg,
   err |-> NoResult, n |-> 0]

\* The keys absent from a map are those at Unset.
EmptyMap == [k \in VarNames |-> Unset]

\* A goroutine that has not called the storage: pc is where it is in a
\* call, op the method, name, value, names and src its arguments, left
\* what its loop has still to visit, got the value GetValue returns (Unset
\* for not found), out the map Contents or Clone returns, n the calls
\* begun.
NoOp ==
  [pc |-> "idle", op |-> "", name |-> "", value |-> Unset, names |-> <<>>,
   src |-> EmptyMap, left |-> {}, got |-> Unset, out |-> EmptyMap, n |-> 0]

NewMapVariableStorage ==
  /\ storage = [mu |-> [w |-> "", r |-> {}], m |-> EmptyMap]
  /\ goroutines = [t \in Threads |-> NoOp]
  /\ done = EmptyMap

\* The two Render calls compared with each other.
Calls == {1, 2}

\* Names of markup tags in the texts.
TagNames == {"a", "b"}

\* A nil *parsedString, and a parsedString.
NilParsed == [nil |-> TRUE, Fragments |-> <<>>]
Parsed(fs) == [nil |-> FALSE, Fragments |-> fs]

\* A StringTableRow literal with this Text: origText and parsedText have
\* their zero values.
StringTableRow(text) == [Text |-> text, origText |-> <<>>, parsedText |-> NilParsed]

\* No error from the renderer; otherwise kind and the tag or key named.
NoRenderErr == [kind |-> "", name |-> ""]

\* A goroutine that has not called Render: pc is where it is in the call,
\* text the Text it parsed, pt the parsedString it made, used the
\* parsedString it rendered, err whether Render returned an error, n the
\* calls begun.
NoRender ==
  [pc |-> "idle", text |-> <<>>, pt |-> NilParsed, used |-> NilParsed,
   err |-> NoRenderErr, n |-> 0]

\* The zero lineRenderer: an empty Builder, no attribs, no open tags (a
\* nil open map and one without the name both read as the empty list).
\* pc and idx are where the Render call is, made counts the Attributes it
\* has allocated, err is the error it returned.
NewLineRenderer ==
  [pc |-> "idle", idx |-> 0, Str |-> <<>>, attribs |-> <<>>,
   open |-> [n \in TagNames |-> <<>>], made |-> 0, err |-> NoRenderErr]

NoAttributedString == [Str |-> <<>>, Attributes |-> <<>>]

NoRenderer ==
  /\ row = StringTableRow(<<>>)
  /\ renders = [t \in Threads |-> NoRender]
  /\ lr = [c \in Calls |-> NewLineRenderer]
  /\ astr = [c \in Calls |-> NoAttributedString]
  /\ visited = [c \in Calls |-> <<>>]

\* VirtualMachine.SetNode called by the async handler from inside a
\* callback: the event method it is in (ev), where it is in that method
\* (pc), the error it returned (err), whether it has replaced vm.state
\* (entered), and the calls the callback had made before it (calls).
NoSetNode ==
  [ev |-> "", pc |-> "", err |-> NoResult, entered |-> FALSE, calls |-> 0]

NewAsyncAdapter ==
  /\ astate = VMStateRunning
  /\ msgCh = <<>>
  /\ vmth = [stage |-> "NodeStart", pc |-> "exec", kind |-> "", calls |-> 0,
             sn |-> NoSetNode]
  /\ callers = [t \in Threads |-> NoCall]
  /\ continues = 0
  /\ issued = <<>>
  /\ delivered = <<>>
  /\ aresult = NoResult

Init ==
  /\ NewAsyncAdapter
  /\ NewMapVariableStorage
  /\ NoRenderer
  /\ program \in [NodeNames -> Bodies]
  /\ state = [node |-> NoNode, pc |-> 0, stack |-> <<>>, options |-> <<>>]
  /\ vars = [k \in VarNames |-> Unset]
  /\ calls = <<>>
  /\ phase = "idle"
  /\ result = Pending
  /\ detail = <<>>
  /\ runs = 0

Instructions == program[state.node].Instructions
InLoop == phase = "loop" /\ state.node # NoNode
AtEnd == InLoop /\ state.pc >= Len(Instructions)
Cur == Instructions[state.pc + 1]

\* The loop fetches an instruction with this opcode.
Fetch(op) ==
  /\ InLoop
  /\ state.pc < Len(Instructions)
  /\ Cur.Opcode = op
  /\ ExecCount(calls) < MaxSteps

\* The switch of the loop on the error of vm.execute.
Dispatch(r, vs) ==
  /\ state' = r.state
  /\ calls' = calls \o <<Exec(Cur.Opcode, state)>> \o r.calls
  /\ vars' = vs
  /\ phase' = IF r.err = NoErr THEN "loop"
              ELSE IF r.err = Stop THEN "exit"
              ELSE IF r.err = Panic THEN "panic" ELSE "done"
  /\ result' = IF r.err \in {NoErr, Stop, Panic} THEN result ELSE r.err
  /\ detail' = IF r.err \in {NoErr, Stop, Panic} THEN detail ELSE r.info
  /\ UNCHANGED <<program, runs>>
  /\ UNCHANGED <<avars, stvars, rvars>>

\* The fields of the VirtualMachine the caller may have left unset.
Configs == {"ok", ErrNilDialogueHandler, ErrNilVariableStorage, ErrMissingProgram}

\* Run(startNode) up to the instruction loop.  The execution state of an
\* earlier Run is still in the VirtualMachine.
RunStart ==
  /\ phase \in {"idle", "done"}
  /\ runs < MaxRuns
  /\ runs' = runs + 1
  /\ \/ \E cfg \in Configs \ {"ok"} :
          /\ calls' = <<>>
          /\ phase' = "done"
          /\ result' = cfg
          /\ detail' = <<>>
          /\ UNCHANGED state
     \/ \E startNode \in Names, r \in SetNodeRets :
          LET sn == SetNode(state, startNode, r, FALSE)
          IN /\ calls' = sn.calls
             /\ state' = sn.state
             /\ phase' = IF sn.err = NoErr THEN "loop" ELSE "done"
             /\ result' = IF sn.err = NoErr THEN Pending ELSE sn.err
             /\ detail' = sn.info
  /\ UNCHANGED <<program, vars>>
  /\ UNCHANGED <<avars, stvars, rvars>>

JumpTo == Fetch("JUMP_TO") /\ Dispatch(execJumpTo(state, Cur), vars)
Jump == Fetch("JUMP") /\ Dispatch(execJump(state), vars)
RunLine ==
  /\ Fetch("RUN_LINE")
  /\ \E ret \in HandlerRets : Dispatch(execRunLine(state, Cur, ret), vars)
RunCommand ==
  /\ Fetch("RUN_COMMAND")
  /\ \E h \in CommandBehaviours :
       /\ h.jump # NoNode => JumpCount(calls) < MaxJumps
       /\ Dispatch(execRunCommand(state, Cur, h), vars)
AddOption == Fetch("ADD_OPTION") /\ Dispatch(execAddOption(state, Cur), vars)
ShowOptions ==
  /\ Fetch("SHOW_OPTIONS")
  /\ \E h \in OptionsBehaviours(state) : Dispatch(execShowOptions(state, h), vars)
PushString == Fetch("PUSH_STRING") /\ Dispatch(execPushString(state, Cur), vars)
PushFloat == Fetch("PUSH_FLOAT") /\ Dispatch(execPushFloat(state, Cur), vars)
PushBool == Fetch("PUSH_BOOL") /\ Dispatch(execPushBool(state, Cur), vars)
PushNull == Fetch("PUSH_NULL") /\ Dispatch(execPushNull(state), vars)
JumpIfFalse == Fetch("JUMP_IF_FALSE") /\ Dispatch(execJumpIfFalse(state, Cur), vars)
Pop == Fetch("POP") /\ Dispatch(execPop(state), vars)
PushVariable ==
  Fetch("PUSH_VARIABLE") /\ Dispatch(execPushVariable(state, Cur, vars), vars)
StoreVariable ==
  /\ Fetch("STORE_VARIABLE")
  /\ Dispatch(execStoreVariable(state, Cur), storeVars(state, Cur, vars))
StopInst == Fetch("STOP") /\ Dispatch(execStop(state), vars)
RunNode ==
  /\ Fetch("RUN_NODE")
  /\ \E r \in SetNodeRets : Dispatch(execRunNode(state, r), vars)
CallFunc ==
  /\ Fetch("CALL_FUNC")
  /\ \E r \in SetNodeRets : Dispatch(execCallFunc(state, Cur, r), vars)

\* After the loop: NodeComplete, then DialogueComplete; Stop from either is
\* not an error.
RunComplete ==
  /\ phase = "exit" \/ AtEnd
  /\ \E nc \in HandlerRets, dc \in HandlerRets :
       LET c1 == Call("NodeComplete", state.node, <<>>, NoLine, <<>>, nc, 0, FALSE, state)
           c2 == Call("DialogueComplete", "", <<>>, NoLine, <<>>, dc, 0, FALSE, state)
       IN IF nc \notin {NoErr, Stop}
          THEN calls' = calls \o <<c1>> /\ result' = nc
          ELSE /\ calls' = calls \o <<c1, c2>>
               /\ result' = IF dc \notin {NoErr, Stop} THEN dc ELSE NoErr
  /\ phase' = "done"
  /\ detail' = <<>>
  /\ UNCHANGED <<program, state, vars, runs>>
  /\ UNCHANGED <<avars, stvars, rvars>>

Next ==
  \/ RunStart
  \/ JumpTo
  \/ Jump
  \/ RunLine
  \/ RunCommand
  \/ AddOption
  \/ ShowOptions
  \/ PushString
  \/ PushFloat
  \/ PushBool
  \/ PushNull
  \/ JumpIfFalse
  \/ Pop
  \/ PushVariable
  \/ StoreVariable
  \/ StopInst
  \/ RunNode
  \/ CallFunc
  \/ RunComplete

Spec == Init /\ [][Next]_vmvars

----------------------------------------------------------------------------
(* One instruction on every stack.  Node A pushes a stack of values and    *)
(* then runs a short tail of instructions; Run("A") has entered the node   *)
(* and the handler returned nil from NodeStart and PrepareForLines.        *)

\* Values pushed before the tail runs, at most this many.
MaxStack == 2

\* "B" is a node and a label of A, "top" a label of B only, "Z" neither;
\* "1" is a numeral.
StackValues ==
  {Null, BoolValue(TRUE), BoolValue(FALSE), FloatValue(1), FloatValue(2),
   StringValue("B"), StringValue("top"), StringValue("Z"), StringValue("1")}

Stacks == UNION {[1 .. n -> StackValues] : n \in 0 .. MaxStack}

\* The PUSH instruction the compiler emits for a value.
PushOf(x) ==
  CASE x.t = "null" -> Op0("PUSH_NULL")
    [] x.t = "bool" -> Inst("PUSH_BOOL", "", "", NoOperand, x.b, 0)
    [] x.t = "float" -> Inst("PUSH_FLOAT", "", "", NoOperand, FALSE, x.n)
    [] x.t = "string" -> OpS("PUSH_STRING", x.s)

Pushes(s) == [i \in 1 .. Len(s) |-> PushOf(s[i])]

Tails ==
  {<<OpS("JUMP_TO", "B")>>, <<OpS("JUMP_TO", "top")>>, <<Op0("JUMP")>>,
   <<OpS("JUMP_IF_FALSE", "B")>>, <<OpS("JUMP_IF_FALSE", "top")>>,
   <<OpS("RUN_LINE", "l1")>>, <<Inst("RUN_LINE", "l1", "", 1, FALSE, 0)>>,
   <<Inst("RUN_COMMAND", "c1", "", 2, FALSE, 0)>>,
   <<Inst("ADD_OPTION", "o1", "B", 1, TRUE, 0), Op0("SHOW_OPTIONS")>>,
   <<Inst("ADD_OPTION", "o1", "B", NoOperand, TRUE, 0)>>,
   <<Op0("POP"), Op0("POP")>>,
   <<OpS("PUSH_VARIABLE", "$x")>>, <<OpS("PUSH_VARIABLE", "$y")>>,
   <<OpS("STORE_VARIABLE", "$y"), OpS("PUSH_VARIABLE", "$y")>>,
   <<Op0("STOP")>>, <<Op0("RUN_NODE")>>}
  \cup {<<OpS("CALL_FUNC", f)>> : f \in DOMAIN FuncMap \cup {"nope"}}
  \cup {<<PushOf(FloatValue(2)), OpS("CALL_FUNC", "Number.Modulo")>>}

\* Node B, the target of jumps out of A.
BodyTarget == Body(<<OpS("RUN_LINE", "b1")>>, {Label("top", 0)})

\* Node A: the pushes, the tail, and the label B at the end of the node.
BodyOf(s, tail) ==
  Body(Pushes(s) \o tail, {Label("B", Len(s) + Len(tail))})

InitInst ==
  /\ NewAsyncAdapter
  /\ NewMapVariableStorage
  /\ NoRenderer
  /\ \E s \in Stacks, tail \in Tails :
       program = [n \in NodeNames |-> IF n = "A" THEN BodyOf(s, tail) ELSE BodyTarget]
  /\ state = NewState("A")
  /\ vars = [k \in VarNames |-> Unset]
  /\ calls = SetNode([node |-> NoNode, pc |-> 0, stack |-> <<>>, options |-> <<>>],
                     "A", [nc |-> NoErr, ns |-> NoErr, pl |-> NoErr], FALSE).calls
  /\ phase = "loop"
  /\ result = Pending
  /\ detail = <<>>
  /\ runs = 1

NextInst ==
  \/ JumpTo
  \/ Jump
  \/ RunLine
  \/ RunCommand
  \/ AddOption
  \/ ShowOptions
  \/ PushString
  \/ PushFloat
  \/ PushBool
  \/ PushNull
  \/ JumpIfFalse
  \/ Pop
  \/ PushVariable
  \/ StoreVariable
  \/ StopInst
  \/ RunNode
  \/ CallFunc
  \/ RunComplete

SpecInst == InitInst /\ [][NextInst]_vmvars

----------------------------------------------------------------------------
(* Properties of Run, SetNode and the handler calls.                       *)

Returned == phase = "done"
Succeeded == Returned /\ result = NoErr
CallsOf(m) == {i \in 1 .. Len(calls) : calls[i].m = m}
HandlerCalls == {i \in 1 .. Len(calls) : ~IsExec(calls[i]) /\ calls[i].m # "func"}

\* The entries a step adds to calls (Run starts a new record).
Added ==
  IF phase \in {"idle", "done"} THEN calls'
  ELSE SubSeq(calls', Len(calls) + 1, Len(calls'))

\* The loop is about to execute this opcode.
About(op) == InLoop /\ state.pc < Len(Instructions) /\ Cur.Opcode = op

\* C1: when Run returns no error, DialogueComplete was called exactly once
\* and every NodeStart(x) is followed later in the run by NodeComplete(x).
C1_StartsAreCompleted ==
  Succeeded =>
    /\ Cardinality(CallsOf("DialogueComplete")) = 1
    /\ \A i \in CallsOf("NodeStart") :
         \E j \in CallsOf("NodeComplete") : j > i /\ calls[j].arg = calls[i].arg

\* A successful run through two nodes, entered by a SetNode of the Command
\* handler, that a handler ended with Stop.
C1_Witness ==
  /\ Succeeded
  /\ \E i \in CallsOf("NodeStart") : calls[i].nested /\ calls[i].arg # calls[1].arg
  /\ \E i \in HandlerCalls : calls[i].ret = Stop

\* C2 (as claimed): whenever a handler method returned Stop during Run, the
\* run ended cleanly: NodeComplete and DialogueComplete were the last calls
\* and Run returned no error.
C2_StopEndsCleanly ==
  (Returned /\ \E i \in HandlerCalls : calls[i].ret = Stop /\ ~calls[i].nested) =>
    /\ result = NoErr
    /\ Len(calls) >= 2
    /\ calls[Len(calls) - 1].m = "NodeComplete"
    /\ calls[Len(calls)].m = "DialogueComplete"

\* C3: a run that returns no error leaves the loop into exactly
\* NodeComplete(current node) then DialogueComplete, its last two handler
\* calls, and nothing is executed after a STOP instruction.
C3_ExitCallsCompleteOnce ==
  /\ [](\A i \in 1 .. Len(calls) :
          (IsExec(calls[i]) /\ calls[i].arg = "STOP") =>
             \A j \in i + 1 .. Len(calls) : ~IsExec(calls[j]))
  /\ [][(phase \in {"loop", "exit"} /\ phase' = "done" /\ result' = NoErr) =>
          /\ Len(Added) = 2
          /\ Added[1].m = "NodeComplete" /\ Added[1].arg = state.node
          /\ Added[2].m = "DialogueComplete"
          /\ state' = state]_vmvars

\* A successful run that executed STOP with instructions left in the node.
C3_Witness ==
  /\ Succeeded
  /\ state.pc + 1 < Len(Instructions)
  /\ \E i \in 1 .. Len(calls) : IsExec(calls[i]) /\ calls[i].arg = "STOP"

\* C4 (as claimed): whenever a handler method returned to the VM an error
\* other than Stop, nothing was executed afterwards and Run returned an
\* error wrapping the handler's error.
C4_HandlerErrorPropagates ==
  \A i \in HandlerCalls :
    (calls[i].ret = HandlerErr /\ ~calls[i].nested) =>
      /\ \A j \in i + 1 .. Len(calls) : ~IsExec(calls[j])
      /\ Returned => result = HandlerErr

\* The ids PrepareForLines is given for a node, written from the node's
\* instruction list.
PreparedIDs(name) ==
  LET wanted == SelectSeq(program[name].Instructions,
                          LAMBDA i : i.Opcode = "RUN_LINE" \/ i.Opcode = "ADD_OPTION")
  IN [k \in 1 .. Len(wanted) |-> wanted[k].a]

\* C5: a successful SetNode(name) calls NodeComplete(previous) only if a
\* node was selected, then NodeStart(name), then PrepareForLines(ids of
\* name); the state is fresh for name from NodeStart on, and still the
\* previous node's at NodeComplete.  (A function of the FuncMap that called
\* SetNode may have its result pushed after SetNode has returned.)
C5_SetNodeCallOrder ==
  [][(Added # <<>> /\ Added[Len(Added)].m = "PrepareForLines"
        /\ Added[Len(Added)].ret = NoErr) =>
       LET n == Len(Added)
           name == Added[n - 1].arg
       IN /\ n >= 2
          /\ Added[n - 1].m = "NodeStart"
          /\ Added[n - 1].ret = NoErr
          /\ Added[n].ids = PreparedIDs(name)
          /\ Added[n - 1].at = NewState(name)
          /\ Added[n].at = NewState(name)
          /\ state'.node = name /\ state'.pc = 0 /\ state'.options = <<>>
          /\ About("CALL_FUNC") \/ state' = NewState(name)
          /\ IF state.node # NoNode
             THEN /\ n >= 3
                  /\ Added[n - 2].m = "NodeComplete"
                  /\ Added[n - 2].arg = state.node
                  /\ Added[n - 2].ret = NoErr
                  /\ Added[n - 2].at.node = state.node
                  /\ Added[n - 2].at.options = state.options
             ELSE n = 2]_vmvars

\* RUN_NODE went from one node to another with an option pending: the last
\* three calls are NodeComplete(previous), NodeStart, PrepareForLines.
C5_Witness ==
  /\ Len(calls) >= 4
  /\ calls[Len(calls)].m = "PrepareForLines" /\ calls[Len(calls)].ret = NoErr
  /\ calls[Len(calls)].ids # <<>>
  /\ calls[Len(calls) - 1].m = "NodeStart"
  /\ calls[Len(calls) - 2].m = "NodeComplete"
  /\ calls[Len(calls) - 2].arg # calls[Len(calls) - 1].arg
  /\ calls[Len(calls) - 2].at.options # <<>>
  /\ state = NewState(calls[Len(calls) - 1].arg)

\* The last handler call was Options and it returned a valid index.
Chose ==
  /\ calls # <<>>
  /\ calls[Len(calls)].m = "Options"
  /\ calls[Len(calls)].ret = NoErr
  /\ calls[Len(calls)].idx \in 0 .. Len(calls[Len(calls)].opts) - 1
Chosen == calls[Len(calls)].opts[calls[Len(calls)].idx + 1]

\* C6: when Options returns a valid index i, SHOW_OPTIONS pushes exactly
\* the DestinationNode of option i of the batch, empties the buffer and
\* advances PC by 1; a RUN_NODE executed next pops it and enters that node.
C6_ChoicePushesDestination ==
  /\ [][(About("SHOW_OPTIONS") /\ state.options # <<>> /\ Chose') =>
          /\ calls'[Len(calls')].opts = state.options
          /\ state'.stack = Append(state.stack, StringValue(Chosen'.DestinationNode))
          /\ state'.options = <<>>
          /\ state'.pc = state.pc + 1
          /\ state'.node = state.node]_vmvars
  /\ [][(About("RUN_NODE") /\ Chose) =>
          IF Chosen.DestinationNode \in DOMAIN program
          THEN /\ \A k \in 1 .. Len(Added) :
                    /\ Added[k].m = "NodeStart" => Added[k].arg = Chosen.DestinationNode
                    /\ Added[k].m = "NodeComplete" =>
                         Added[k].at.stack = SubSeq(state.stack, 1, Len(state.stack) - 1)
               /\ phase' = "loop" => state' = NewState(Chosen.DestinationNode)
          ELSE result' = ErrNodeNotFound]_vmvars

\* The second of two options was chosen and RUN_NODE has entered its node.
C6_Witness ==
  /\ Len(calls) >= 5
  /\ calls[Len(calls) - 4].m = "Options"
  /\ calls[Len(calls) - 4].idx = 1 /\ Len(calls[Len(calls) - 4].opts) = 2
  /\ calls[Len(calls) - 3].arg = "RUN_NODE"
  /\ calls[Len(calls) - 1].m = "NodeStart"
  /\ calls[Len(calls) - 1].arg = calls[Len(calls) - 4].opts[2].DestinationNode
  /\ state.node = calls[Len(calls) - 1].arg
  /\ state.node # calls[Len(calls) - 4].at.node

\* C7: SHOW_OPTIONS on an empty buffer calls DialogueComplete, does not
\* call Options, and fails with NoOptions; Run returns NoOptions and
\* DialogueComplete was called once in the run.
C7_NoOptionsEndsDialogue ==
  /\ [][(About("SHOW_OPTIONS") /\ state.options = <<>>) =>
          /\ Len(Added) = 2
          /\ IsExec(Added[1])
          /\ Added[2].m = "DialogueComplete"
          /\ phase' = "done"
          /\ result' = ErrNoOptions]_vmvars
  /\ []((Returned /\ result = ErrNoOptions) =>
          /\ Cardinality(CallsOf("DialogueComplete")) = 1
          /\ calls[Len(calls)].m = "DialogueComplete"
          /\ calls[Len(calls)].at.options = <<>>)

\* Run returned NoOptions after lines of the node had been prepared.
C7_Witness ==
  /\ Returned /\ result = ErrNoOptions
  /\ calls[Len(calls)].m = "DialogueComplete"
  /\ calls[Len(calls) - 1].arg = "SHOW_OPTIONS"

\* A step of the instruction loop that executed this opcode.
Executed(op) == About(op) /\ Added # <<>> /\ IsExec(Added[1])

\* C8 (as claimed): the options buffer changes only by ADD_OPTION appending
\* one option and by SHOW_OPTIONS clearing it.
C8_OnlyAddAndShowChangeOptions ==
  [][state'.options # state.options =>
       \/ /\ Executed("ADD_OPTION")
          /\ Len(state'.options) = Len(state.options) + 1
          /\ SubSeq(state'.options, 1, Len(state.options)) = state.options
       \/ /\ Executed("SHOW_OPTIONS")
          /\ state'.options = <<>>]_vmvars

\* A step in which SetNode replaced the execution state.
Replaced ==
  /\ \E k \in 1 .. Len(Added) : Added[k].m = "NodeStart"
  /\ state'.pc = 0 /\ state'.stack = <<>>

\* C8 (amended): the options buffer changes only by ADD_OPTION appending
\* one option, by SHOW_OPTIONS clearing it after a valid choice, and by
\* SetNode replacing the state; SHOW_OPTIONS hands the whole buffer to
\* Options.
C8_OptionsChangeOnlyByAddShowSetNode ==
  /\ [][state'.options # state.options =>
          \/ /\ Executed("ADD_OPTION")
             /\ Len(state'.options) = Len(state.options) + 1
             /\ SubSeq(state'.options, 1, Len(state.options)) = state.options
          \/ /\ Executed("SHOW_OPTIONS")
             /\ Chose'
             /\ state'.options = <<>>
          \/ /\ Replaced
             /\ state'.options = <<>>]_vmvars
  /\ [][(Executed("SHOW_OPTIONS") /\ state.options # <<>>) =>
          /\ Len(Added) = 2
          /\ Added[2].m = "Options"
          /\ Added[2].opts = state.options]_vmvars

\* An option added before PUSH_FLOAT, STORE_VARIABLE and POP ran was
\* delivered to Options.
C8_Witness ==
  \E i \in CallsOf("Options") :
    /\ Len(calls[i].opts) = 1
    /\ \E j \in 1 .. i - 1 :
         /\ IsExec(calls[j]) /\ calls[j].arg = "POP"
         /\ calls[j].at.options = calls[i].opts

\* C9: the option at index i of the pending buffer has ID i, also in every
\* batch passed to Options.
C9_OptionIDIsPosition ==
  /\ \A k \in 1 .. Len(state.options) : state.options[k].ID = k - 1
  /\ \A i \in CallsOf("Options") :
       \A k \in 1 .. Len(calls[i].opts) : calls[i].opts[k].ID = k - 1

\* A batch of two options was passed to Options.
C9_Witness ==
  \E i \in CallsOf("Options") :
    /\ Len(calls[i].opts) = 2
    /\ calls[i].opts[2].ID = 1
    /\ calls[i].opts[1].Line.ID # calls[i].opts[2].Line.ID

PcInRange(st) ==
  st.node # NoNode => st.pc \in 0 .. Len(program[st.node].Instructions)

----------------------------------------------------------------------------
(* Calls out of the VM that change the node.                               *)

\* The step ended with a successful SetNode called from inside the Command
\* handler or a function of the FuncMap.
Jumped ==
  /\ Executed("RUN_COMMAND") \/ Executed("CALL_FUNC")
  /\ Len(Added) >= 4
  /\ Added[Len(Added)].m = "PrepareForLines"
  /\ Added[Len(Added)].nested
  /\ Added[Len(Added)].ret = NoErr
JumpedTo == Added[Len(Added) - 1].arg

\* The entries of calls that end a successful SetNode called from inside
\* the handler or a function.
Landings ==
  {i \in 2 .. Len(calls) :
     calls[i].m = "PrepareForLines" /\ calls[i].nested /\ calls[i].ret = NoErr}

\* After a landing the next instruction executed, if any, is instruction 0
\* of the node that was entered.
NextIsInstructionZero ==
  \A i \in Landings : \A j \in i + 1 .. Len(calls) :
    (IsExec(calls[j]) /\ \A k \in i + 1 .. j - 1 : ~IsExec(calls[k])) =>
      /\ j = i + 1
      /\ calls[j].at.node = calls[i - 1].arg
      /\ calls[j].at.pc = 0
      /\ calls[j].arg = program[calls[i - 1].arg].Instructions[1].Opcode

\* C11 (as claimed): when the Command handler or a called function has
\* successfully called SetNode(n), the instruction returns with the fresh
\* state of n (PC 0, empty stack, no options), and the next instruction
\* executed is instruction 0 of n.
C11_JumpLandsOnFreshState ==
  /\ [][Jumped => state' = NewState(JumpedTo)]_vmvars
  /\ [](NextIsInstructionZero)

\* C11 (amended): the same, except that the result of a function that
\* returns a value is pushed after the function has returned, so it is the
\* one value on the stack of n.
C11_JumpLandsOnInstructionZero ==
  /\ [][Jumped =>
          /\ state'.node = JumpedTo
          /\ state'.pc = 0
          /\ state'.options = <<>>
          /\ IF About("CALL_FUNC") /\ FuncMap[Cur.a].Out[1] # "error"
             THEN Len(state'.stack) = 1 /\ state'.stack[1] = BoolValue(TRUE)
             ELSE state'.stack = <<>>
          /\ Added[2].at.pc = state.pc + 1
          /\ Added[Len(Added) - 2].m = "NodeComplete"
          /\ Added[Len(Added) - 2].at.pc = state.pc + 1]_vmvars
  /\ [](NextIsInstructionZero)

\* In one run the Command handler and then a function called SetNode, and
\* the first instruction of the node entered last has been executed.
C11_Witness ==
  /\ \E i \in Landings : i + 1 = Len(calls) - 1 /\ IsExec(calls[i + 1])
                         /\ \E j \in 1 .. i : calls[j].m = "func"
  /\ \E i \in Landings : \E j \in 1 .. i : calls[j].m = "Command" /\ calls[j + 1].nested
  /\ IsExec(calls[Len(calls)])
  /\ calls[Len(calls)].at.pc = 1

----------------------------------------------------------------------------
(* Jumps.                                                                  *)

\* The label table of the current node, read off the program.
LabelsHere == {l.name : l \in program[state.node].Labels}
IndexHere(k) == (CHOOSE l \in program[state.node].Labels : l.name = k).idx

\* The step executed a jump instruction that takes the jump, to this label.
Jumping ==
  \/ Executed("JUMP_TO")
  \/ Executed("JUMP") /\ state.stack # <<>> /\ Top(state).t = "string"
  \/ Executed("JUMP_IF_FALSE") /\ state.stack # <<>> /\ ~ConvertToBool(Top(state))
JumpLabel == IF About("JUMP") THEN Top(state).s ELSE Cur.a

\* C12: JUMP_TO, JUMP and JUMP_IF_FALSE (top of stack false) look their
\* label up in the label table of the current node only; a label missing
\* there fails the run with LabelNotFound naming the label and the node,
\* PC and stack unchanged; a label found there becomes the PC.
C12_LabelsResolveInCurrentNode ==
  [][Jumping =>
       IF JumpLabel \in LabelsHere
       THEN /\ state' = [state EXCEPT !.pc = IndexHere(JumpLabel)]
            /\ phase' = "loop"
       ELSE /\ phase' = "done"
            /\ result' = ErrLabelNotFound
            /\ detail' = <<JumpLabel, state.node>>
            /\ state' = state]_vmvars

\* JUMP found on the stack a label that only the other node has, and the
\* run failed with the value still on the stack.
C12_Witness ==
  /\ Returned /\ result = ErrLabelNotFound
  /\ detail = <<"top", "A">>
  /\ calls[Len(calls)].arg = "JUMP"
  /\ Len(state.stack) = 2 /\ Top(state) = StringValue("top")
  /\ state.pc = 2
  /\ \E l \in program["B"].Labels : l.name = "top"

----------------------------------------------------------------------------
(* Stack underflow.                                                        *)

\* CALL_FUNC of this instruction gets as far as popping its parameters:
\* the function exists, the count on top of the stack converts to an int
\* and passes the arity check, and the results of the function are
\* acceptable.
PopsParams(st, inst) ==
  /\ inst.a \in DOMAIN FuncMap
  /\ FuncMap[inst.a].Kind = "func"
  /\ st.stack # <<>>
  /\ ConvertToInt(Top(st)).err = NoErr
  /\ LET ft == FuncMap[inst.a]
         argc == ConvertToInt(Top(st)).x
     IN /\ IF ft.Variadic THEN argc >= Len(ft.In) - 1 ELSE argc = Len(ft.In)
        /\ Len(ft.Out) <= 1 \/ (Len(ft.Out) = 2 /\ ft.Out[2] = "error")

\* How many values the instruction takes from the stack or looks at.
Needs(st, inst) ==
  CASE inst.Opcode \in {"POP", "JUMP", "JUMP_IF_FALSE", "STORE_VARIABLE", "RUN_NODE"} -> 1
    [] inst.Opcode \in {"RUN_LINE", "RUN_COMMAND"} ->
         IF inst.n = NoOperand THEN 0 ELSE inst.n
    [] inst.Opcode = "ADD_OPTION" ->
         (IF inst.n = NoOperand THEN 0 ELSE inst.n) + (IF inst.d THEN 1 ELSE 0)
    [] inst.Opcode = "CALL_FUNC" ->
         IF PopsParams(st, inst) THEN 1 + ConvertToInt(Top(st)).x
         ELSE IF inst.a \in DOMAIN FuncMap /\ FuncMap[inst.a].Kind = "func" THEN 1
         ELSE 0
    [] OTHER -> 0

\* The loop executed an instruction that needs more values than the stack
\* holds.
Short ==
  /\ InLoop /\ state.pc < Len(Instructions)
  /\ Added # <<>> /\ IsExec(Added[1])
  /\ Len(state.stack) < Needs(state, Cur)

\* C13 (as claimed): every instruction that needs more values than the
\* stack holds fails with StackUnderflow, which Run returns.
C13_ShortStackIsUnderflow ==
  [][Short => (phase' = "done" /\ result' = ErrStackUnderflow)]_vmvars

\* C13 (amended): every instruction that needs more values than the stack
\* holds fails with an error that Run returns, and the stack left behind
\* is what remains of the old one: the error is StackUnderflow, except that
\* CALL_FUNC, which pops and converts its parameters one at a time from
\* the top, may fail earlier on a parameter it could not convert.
C13_ShortStackFailsTheRun ==
  [][Short =>
       /\ phase' = "done"
       /\ \/ result' = ErrStackUnderflow
          \/ /\ About("CALL_FUNC") /\ PopsParams(state, Cur)
             /\ result' \in {ErrSyntax, ErrFunctionArgMismatch}
       /\ Len(state'.stack) <= Len(state.stack)
       /\ state'.stack = SubSeq(state.stack, 1, Len(state'.stack))
       /\ state'.pc = state.pc /\ state'.node = state.node]_vmvars

\* CALL_FUNC was told of two parameters with one value under the count,
\* and Run returned StackUnderflow with the stack emptied.
C13_Witness ==
  /\ Returned /\ result = ErrStackUnderflow
  /\ calls[Len(calls)].arg = "CALL_FUNC"
  /\ Len(calls[Len(calls)].at.stack) = 2
  /\ Top(calls[Len(calls)].at) = FloatValue(2)
  /\ state.stack = <<>>

----------------------------------------------------------------------------
(* Rejected function calls.                                                *)

\* The function of the instruction exists and the count on top of the
\* stack converts to an int.
Counted(st, inst) ==
  /\ inst.a \in DOMAIN FuncMap
  /\ FuncMap[inst.a].Kind = "func"
  /\ st.stack # <<>>
  /\ ConvertToInt(Top(st)).err = NoErr
Argc(st) == ConvertToInt(Top(st)).x

\* The program supplied the wrong number of arguments.
WrongCount(st, inst) ==
  LET ft == FuncMap[inst.a]
  IN IF ft.Variadic THEN Argc(st) < Len(ft.In) - 1 ELSE Argc(st) # Len(ft.In)

\* The declared type of parameter i (from 1) of the function.
ParamType(ft, i) == IF i >= Len(ft.In) THEN ft.In[Len(ft.In)] ELSE ft.In[i]

\* A value of the stack that can be passed for a parameter of this type:
\* nil, a value of the type, anything for a string or a bool, and for a
\* float32 a bool, a number or a numeral.
Passable(x, type) ==
  \/ x.t = "null"
  \/ type \in {"interface", "string", "bool"}
  \/ type = "float32" /\ (x.t \in {"bool", "float"} \/ (x.t = "string" /\ x.s \in {"0", "1", "2"}))

\* The arguments are all on the stack, under the count, and one of them
\* cannot be passed for its parameter.
WrongType(st, inst) ==
  /\ ~WrongCount(st, inst)
  /\ Len(st.stack) >= 1 + Argc(st)
  /\ \E i \in 1 .. Argc(st) :
       ~Passable(st.stack[Len(st.stack) - 1 - Argc(st) + i], ParamType(FuncMap[inst.a], i))

\* C14 (as claimed): CALL_FUNC given the wrong number of arguments, or an
\* argument that cannot be converted to the type of its parameter, fails
\* with FunctionArgMismatch and does not invoke the function.
C14_RejectionIsArgMismatch ==
  [][(Executed("CALL_FUNC") /\ Counted(state, Cur)
        /\ (WrongCount(state, Cur) \/ WrongType(state, Cur))) =>
       /\ phase' = "done"
       /\ result' = ErrFunctionArgMismatch
       /\ \A k \in 1 .. Len(Added) : Added[k].m # "func"]_vmvars

----------------------------------------------------------------------------
(* Variables.                                                              *)

\* The STORE_VARIABLE instructions of this run that stored the variable k.
Stores(k) ==
  {i \in 1 .. Len(calls) :
     /\ IsExec(calls[i]) /\ calls[i].arg = "STORE_VARIABLE"
     /\ program[calls[i].at.node].Instructions[calls[i].at.pc + 1].a = k
     /\ calls[i].at.stack # <<>>}
LastStored(k) ==
  Top(calls[CHOOSE i \in Stores(k) : \A j \in Stores(k) : j <= i].at)

MaxEvents == 2

\* Calls of Go, GoWithChoice and Abort made by the other goroutine.
MaxCalls == 2

\* Calls of Go, GoWithChoice and Abort the async handler makes inside one
\* callback.
MaxReentrant == 2

\* make(chan asyncMsg, 1)
MsgCapUnbuffered == 0

MsgCap == 1

\* Errors of the adapter, with the three fields of VMStateMismatchErr.
AErr(kind, got, want, next) ==
  [kind |-> kind, got |-> got, want |-> want, next |-> next]

NoAErr == AErr(NoErr, "", "", "")

StopErr == AErr(Stop, "", "", "")

\* An error of the caller's own, passed to Abort.
errDummy == AErr("dummy error", "", "", "")

ErrAlreadyStopped == AErr("VM already stopped", "", "", "")

VMStateMismatchErr(got, want, next) ==
  AErr("VMStateMismatchErr", got, want, next)

ErrChoiceNotOptions ==
  AErr("AsyncAdapter.GoWithChoice called, but last event was not Options",
       "", "", "")

ErrGoOptions ==
  AErr("AsyncAdapter.Go called, but last event was Options", "", "", "")

\* The messages.
goMsg == [type |-> "go", choice |-> 0, err |-> NoResult]

choiceMsg(id) == [type |-> "choice", choice |-> id, err |-> NoResult]

abortMsgAsGo(err) == [type |-> "go", choice |-> 0, err |-> err]

abortMsg(err) == [type |-> "abort", choice |-> 0, err |-> err]

ChoiceIDs == {0}

\* What a caller may pass to Abort.
AbortArgs == {NoAErr, errDummy}

\* state.CompareAndSwap(old, new) of stateTransition.
stateTransitionUnchecked(s, old, new) == [ok |-> TRUE, state |-> new]

stateTransition(s, old, new) ==
  [ok |-> s = old, state |-> IF s = old THEN new ELSE s]

\* The state an event parks the VM in.
EventNextAlwaysPaused(kind) == VMStatePaused

EventNext(kind) ==
  IF kind = "Options" THEN VMStatePausedOptions ELSE VMStatePaused

\* waitForGo and waitForChoice: the error for the message received.
waitFor(kind, msg) ==
  IF msg.type = "abort" THEN msg.err
  ELSE IF kind = "Options"
    THEN IF msg.type = "choice" THEN NoAErr ELSE ErrGoOptions
    ELSE IF msg.type = "go" THEN NoAErr ELSE ErrChoiceNotOptions

\* Abort's answer to the state it swapped out.
AbortAlwaysSends(old) == FALSE

AbortAlreadyStopped(old) == old = VMStateStopped

\* The events Run may issue next.
BodyEvents == {"Line", "Options", "Command"}

BodyIssued == Len(SelectSeq(issued, LAMBDA k : k \in BodyEvents))

NextEvents ==
  CASE vmth.stage = "body" ->
         (IF BodyIssued < MaxEvents THEN BodyEvents ELSE {}) \cup {"NodeComplete"}
    [] vmth.stage = "returned" -> {}
    [] OTHER -> {vmth.stage}

\* Run's handling of what the event returned: the next stage and, when Run
\* returns, its error.
AfterEvent(kind, err) ==
  LET ret(e) == [stage |-> "returned", result |-> e]
      on(s) == [stage |-> s, result |-> NoResult]
  IN  CASE kind = "NodeStart" ->
             IF err = NoAErr THEN on("PrepareForLines") ELSE ret(err)
        [] kind = "PrepareForLines" ->
             IF err = NoAErr THEN on("body") ELSE ret(err)
        [] kind \in BodyEvents ->
             IF err = NoAErr THEN on("body")
             ELSE IF err = StopErr THEN on("NodeComplete") ELSE ret(err)
        [] kind = "NodeComplete" ->
             IF err \in {NoAErr, StopErr} THEN on("DialogueComplete") ELSE ret(err)
        [] kind = "DialogueComplete" ->
             IF err \in {NoAErr, StopErr} THEN ret(NoAErr) ELSE ret(err)

EventReturns(kind, err) ==
  LET n == AfterEvent(kind, err)
  IN  /\ vmth' = [stage |-> n.stage, pc |-> "exec", kind |-> "", calls |-> 0,
                  sn |-> NoSetNode]
      /\ aresult' = n.result

\* An event method up to its callback: the transition out of Running and,
\* if it was made, the call of the async handler.
EventCall ==
  /\ vmth.pc = "exec"
  /\ \E kind \in NextEvents :
       LET t == stateTransition(astate, VMStateRunning, EventNext(kind))
       IN  /\ issued' = Append(issued, kind)
           /\ astate' = t.state
           /\ IF t.ok
                THEN /\ delivered' = Append(delivered, kind)
                     /\ vmth' = [vmth EXCEPT !.pc = "callback", !.kind = kind]
                ELSE /\ delivered' = delivered
                     /\ vmth' = [vmth EXCEPT !.pc = "load", !.kind = kind]
  /\ UNCHANGED <<msgCh, callers, continues, aresult>>
  /\ UNCHANGED <<vmvars, stvars, rvars>>

\* stateTransition's a.State() after the failed CompareAndSwap; the event
\* returns the error.
EventMismatch ==
  /\ vmth.pc = "load"
  /\ EventReturns(vmth.kind,
       VMStateMismatchErr(astate, VMStateRunning, EventNext(vmth.kind)))
  /\ UNCHANGED <<astate, msgCh, callers, continues, issued, delivered>>
  /\ UNCHANGED <<vmvars, stvars, rvars>>

\* The callback of the async handler returns.
CallbackReturn ==
  /\ vmth.pc = "callback"
  /\ vmth.sn.pc = ""
  /\ callers["vm"].pc = "idle"
  /\ vmth' = [vmth EXCEPT !.pc = "wait"]
  /\ UNCHANGED <<astate, msgCh, callers, continues, issued, delivered, aresult>>
  /\ UNCHANGED <<vmvars, stvars, rvars>>

\* <-a.msgCh in waitForGo and waitForChoice.
Receive ==
  /\ vmth.pc = "wait"
  /\ msgCh # <<>>
  /\ msgCh' = Tail(msgCh)
  /\ EventReturns(vmth.kind, waitFor(vmth.kind, Head(msgCh)))
  /\ UNCHANGED <<astate, callers, continues, issued, delivered>>
  /\ UNCHANGED <<vmvars, stvars, rvars>>

\* Where a goroutine may begin a call: the VM's goroutine inside a
\* callback, the other goroutine at any time.
MayCall(t) ==
  /\ callers[t].pc = "idle"
  /\ IF t = "vm"
       THEN /\ vmth.pc = "callback"
            /\ vmth.sn.pc \in {"", "callback"}
            /\ vmth.calls < MaxReentrant
       ELSE callers[t].n < MaxCalls

Began(t) ==
  IF t = "vm" THEN vmth' = [vmth EXCEPT !.calls = @ + 1] ELSE vmth' = vmth

\* Go and GoWithChoice up to the send: stateTransition to Running.
Continue(t, op, want, msg) ==
  /\ MayCall(t)
  /\ LET tr == stateTransition(astate, want, VMStateRunning)
     IN  /\ astate' = tr.state
         /\ continues' = IF tr.ok THEN continues + 1 ELSE continues
         /\ callers' = [callers EXCEPT ![t] =
              [pc |-> IF tr.ok THEN "send" ELSE "load", op |-> op,
               at |-> astate, want |-> want, msg |-> msg, err |-> NoResult,
               n |-> IF t = "vm" THEN 0 ELSE @.n + 1]]
  /\ Began(t)
  /\ UNCHANGED <<msgCh, issued, delivered, aresult>>
  /\ UNCHANGED <<vmvars, stvars, rvars>>

Go(t) == Continue(t, "Go", VMStatePaused, goMsg)

GoWithChoice(t) ==
  \E id \in ChoiceIDs :
    Continue(t, "GoWithChoice", VMStatePausedOptions, choiceMsg(id))

\* Abort up to the send: state.Swap(VMStateStopped).
Abort(t) ==
  /\ MayCall(t)
  /\ \E err \in AbortArgs :
       LET c == [pc |-> "send", op |-> "Abort", at |-> astate, want |-> "",
                 msg |-> abortMsg(IF err = NoAErr THEN StopErr ELSE err),
                 err |-> NoResult, n |-> IF t = "vm" THEN 0 ELSE callers[t].n + 1]
       IN  /\ astate' = VMStateStopped
           /\ callers' = [callers EXCEPT ![t] =
                IF AbortAlreadyStopped(astate)
                  THEN [c EXCEPT !.pc = "idle", !.msg = NoMsg,
                                 !.err = ErrAlreadyStopped]
                  ELSE c]
  /\ Began(t)
  /\ UNCHANGED <<msgCh, continues, issued, delivered, aresult>>
  /\ UNCHANGED <<vmvars, stvars, rvars>>

\* stateTransition's a.State() after the failed CompareAndSwap; Go or
\* GoWithChoice returns the error.
Mismatch(t) ==
  /\ callers[t].pc = "load"
  /\ callers' = [callers EXCEPT ![t] =
       [callers[t] EXCEPT !.pc = "idle", !.msg = NoMsg,
          !.err = VMStateMismatchErr(astate, callers[t].want, VMStateRunning)]]
  /\ UNCHANGED <<astate, msgCh, vmth, continues, issued, delivered, aresult>>
  /\ UNCHANGED <<vmvars, stvars, rvars>>

\* a.msgCh <- msg, which waits while the channel is full; the call
\* returns nil.
Send(t) ==
  /\ callers[t].pc = "send"
  /\ Len(msgCh) < MsgCap
  /\ msgCh' = Append(msgCh, callers[t].msg)
  /\ callers' = [callers EXCEPT ![t] =
       [callers[t] EXCEPT !.pc = "idle", !.msg = NoMsg, !.err = NoAErr]]
  /\ UNCHANGED <<astate, vmth, continues, issued, delivered, aresult>>
  /\ UNCHANGED <<vmvars, stvars, rvars>>

\* The steps of the goroutine in Run, the calls its callbacks make included.
VMThread ==
  \/ EventCall
  \/ EventMismatch
  \/ CallbackReturn
  \/ Receive
  \/ Go("vm")
  \/ GoWithChoice("vm")
  \/ Abort("vm")
  \/ Mismatch("vm")
  \/ Send("vm")

\* The steps of the other goroutine.
UserThread ==
  \/ Go("user")
  \/ GoWithChoice("user")
  \/ Abort("user")
  \/ Mismatch("user")
  \/ Send("user")

NextAsync == VMThread \/ UserThread

\* The VM variables play no part: Run is the sequence of events above.
InitAsync ==
  /\ NewAsyncAdapter
  /\ NewMapVariableStorage
  /\ NoRenderer
  /\ program = [n \in NodeNames |-> BodyEmpty]
  /\ state = NewState("")
  /\ vars = <<>>
  /\ calls = <<>>
  /\ phase = "idle"
  /\ result = Pending
  /\ detail = <<>>
  /\ runs = 0

SpecAsync == InitAsync /\ [][NextAsync]_avars

\* A call that has begun finishes when it can, and the goroutine in Run
\* keeps running; nothing makes a goroutine begin a call.
Finish(t) == Mismatch(t) \/ Send(t)

FairAsync ==
  /\ WF_avars(EventCall \/ EventMismatch \/ CallbackReturn \/ Receive)
  /\ \A t \in Threads : WF_avars(Finish(t))

SpecAsyncFair == SpecAsync /\ FairAsync

\* --------------------------------------------------------------------
\* C16
\* --------------------------------------------------------------------

Continuations == {"Go", "GoWithChoice"}

Required(op) == IF op = "Go" THEN VMStatePaused ELSE VMStatePausedOptions

\* Goroutine t begins a call of Go or GoWithChoice in this step.
Begins(t) ==
  /\ callers[t].pc = "idle"
  /\ callers'[t].pc # "idle"
  /\ callers'[t].op \in Continuations

\* Goroutine t returns from Go or GoWithChoice with an error in this step.
Fails(t) ==
  /\ callers[t].pc = "load"
  /\ callers'[t].pc = "idle"

\* A call of Go or GoWithChoice goes on to send its message exactly when
\* the adapter is in the state the method requires, and then the state
\* becomes Running; otherwise the call leaves the state and the channel
\* alone in both of its steps and returns a VMStateMismatchErr with the
\* required state as Want and Running as Next.
ContinueOnlyFromRequired ==
  \A t \in Threads :
    /\ Begins(t) =>
         LET want == Required(callers'[t].op)
         IN  IF astate = want
               THEN /\ callers'[t].pc = "send"
                    /\ astate' = VMStateRunning
                    /\ msgCh' = msgCh
               ELSE /\ callers'[t].pc = "load"
                    /\ astate' = astate
                    /\ msgCh' = msgCh
    /\ Fails(t) =>
         /\ callers'[t].err.kind = "VMStateMismatchErr"
         /\ callers'[t].err.want = Required(callers[t].op)
         /\ callers'[t].err.next = VMStateRunning
         /\ astate' = astate
         /\ msgCh' = msgCh

\* C16: Go succeeds only when the state is Paused and GoWithChoice only
\* when it is PausedOptions; called in any other state they return
\* VMStateMismatchErr{Got: the current state, Want: the required state,
\* Next: Running}, leave the state unchanged and send no message, so that
\* the right continuation still succeeds afterwards. Got is the state at
\* the moment the error is made; while the state is still the one the call
\* met, Got is that state and differs from Want.
C16_ContinueOnlyFromRequiredState ==
  [][/\ ContinueOnlyFromRequired
     /\ \A t \in Threads :
          Fails(t) =>
            /\ callers'[t].err.got = astate
            /\ astate = callers[t].at =>
                 /\ callers'[t].err.got = callers[t].at
                 /\ callers'[t].err.got # callers'[t].err.want]_avars

\* Inside an Options callback the handler called Go, which failed, and then
\* GoWithChoice, which succeeded.
C16_Witness ==
  /\ vmth.pc = "callback"
  /\ vmth.kind = "Options"
  /\ vmth.calls = 2
  /\ callers["vm"].op = "GoWithChoice"
  /\ callers["vm"].pc = "idle"
  /\ callers["vm"].err = NoAErr
  /\ callers["user"] = NoCall

\* --------------------------------------------------------------------
\* C17
\* --------------------------------------------------------------------

\* The adapter calls the async handler in this step.
Delivers == Len(delivered') = Len(delivered) + 1

IsPrefix(s, t) == Len(s) <= Len(t) /\ SubSeq(t, 1, Len(s)) = s

\* The event the goroutine in Run is inside returns in this step.
Resumes == vmth.pc = "wait" /\ vmth'.pc # "wait"

\* C17: the adapter calls a callback of the async handler only in the step
\* that moves the state from Running to Paused (to PausedOptions for
\* Options); the goroutine in Run then leaves the event only by receiving a
\* message of Go, GoWithChoice or Abort; an event is delivered only when
\* every earlier one has been continued, so the events delivered are at
\* most the successful calls of Go and GoWithChoice plus one; and the
\* events are delivered one at a time in the order the VM issued them.
C17_EventsWaitForTheirContinuation ==
  /\ [][/\ Delivers =>
             /\ astate = VMStateRunning
             /\ vmth.pc = "exec"
             /\ vmth'.pc = "callback"
             /\ delivered' = Append(delivered, vmth'.kind)
             /\ astate' = IF vmth'.kind = "Options"
                            THEN VMStatePausedOptions ELSE VMStatePaused
             /\ Len(delivered) = continues
        /\ vmth'.pc = "callback" /\ vmth.pc # "callback" => Delivers
        /\ Resumes =>
             /\ msgCh # <<>>
             /\ msgCh' = Tail(msgCh)
             /\ Head(msgCh).type \in {"go", "choice", "abort"}]_avars
  /\ [](/\ Len(delivered) <= continues + 1
        /\ IsPrefix(delivered, issued))

\* The third event, an Options, has been delivered after two continuations
\* and the goroutine in Run is waiting for the third.
C17_Witness ==
  /\ vmth.pc = "wait"
  /\ vmth.kind = "Options"
  /\ Len(delivered) = 3
  /\ continues = 2
  /\ astate = VMStatePausedOptions
  /\ msgCh = <<>>

\* --------------------------------------------------------------------
\* The immediate handler (immediateAsyncHandler of the adapter's tests):
\* every callback calls Go, or GoWithChoice in Options, once and returns.
\* Another goroutine may call Go and GoWithChoice as well; nothing calls
\* Abort.
\* --------------------------------------------------------------------

ImmediateGo ==
  /\ vmth.kind # "Options"
  /\ vmth.calls = 0
  /\ Go("vm")

ImmediateGoWithChoice ==
  /\ vmth.kind = "Options"
  /\ vmth.calls = 0
  /\ GoWithChoice("vm")

ImmediateReturn ==
  /\ vmth.calls = 1
  /\ CallbackReturn

ImmediateVMThread ==
  \/ EventCall
  \/ ImmediateGo
  \/ ImmediateGoWithChoice
  \/ Mismatch("vm")
  \/ Send("vm")
  \/ ImmediateReturn
  \/ Receive

NextImmediate ==
  \/ ImmediateVMThread
  \/ Go("user")
  \/ GoWithChoice("user")
  \/ Mismatch("user")
  \/ Send("user")

\* The goroutine in Run keeps running while it has a step to take, and a
\* call that has begun finishes when it can.
SpecImmediate ==
  /\ InitAsync
  /\ [][NextImmediate]_avars
  /\ WF_avars(ImmediateVMThread)
  /\ WF_avars(Finish("user"))

\* --------------------------------------------------------------------
\* C18
\* --------------------------------------------------------------------

RunCompleted == vmth.stage = "returned" /\ aresult = NoAErr

\* C18: when every callback calls Go (GoWithChoice in Options) before it
\* returns and nothing calls Abort, no call waits to send, because the
\* channel has room for the message of every call that comes to send; each
\* event returns nil to the VM; and Run runs to completion: it returns nil
\* after every event it issued, DialogueComplete last, has been delivered.
C18_ImmediateContinuationCompletes ==
  /\ [](\A t \in Threads : callers[t].pc = "send" => Len(msgCh) < MsgCap)
  /\ [][Resumes => aresult' \in {NoResult, NoAErr}]_avars
  /\ [](vmth.stage = "returned" =>
          /\ RunCompleted
          /\ delivered = issued
          /\ delivered[Len(delivered)] = "DialogueComplete")
  /\ <>RunCompleted

\* A run of the immediate handler has completed after an Options and a
\* Line, every event continued by its own callback.
C18_Witness ==
  /\ RunCompleted
  /\ delivered =
       <<"NodeStart", "PrepareForLines", "Options", "Line", "NodeComplete",
         "DialogueComplete">>
  /\ continues = 6
  /\ callers["vm"].op = "Go"
  /\ callers["vm"].err = NoAErr
  /\ callers["user"] = NoCall

\* --------------------------------------------------------------------
\* C19
\* --------------------------------------------------------------------

\* Goroutine t calls Abort in this step.
Aborts(t) ==
  /\ callers[t].pc = "idle"
  /\ callers'[t].op = "Abort"
  /\ callers'[t] # callers[t]

\* Goroutine t has swapped the state in Abort and has yet to send.
Aborting(t) == callers[t].pc = "send" /\ callers[t].op = "Abort"

\* C19: a call of Abort in a state other than Stopped sets the state to
\* Stopped, queues one abort message (with Stop in place of a nil error)
\* and returns nil; a call in Stopped returns ErrAlreadyStopped and queues
\* nothing.
C19_AbortStopsAndQueuesOnce ==
  [][\A t \in Threads :
       /\ Aborts(t) =>
            /\ astate' = VMStateStopped
            /\ msgCh' = msgCh
            /\ IF astate = VMStateStopped
                 THEN /\ callers'[t].pc = "idle"
                      /\ callers'[t].err = ErrAlreadyStopped
                 ELSE /\ Aborting(t)'
                      /\ callers'[t].msg.type = "abort"
                      /\ callers'[t].msg.err \in {StopErr, errDummy}
       /\ Aborting(t) /\ ~Aborting(t)' =>
            /\ msgCh' = Append(msgCh, callers[t].msg)
            /\ astate' = VMStateStopped
            /\ callers'[t].pc = "idle"
            /\ callers'[t].err = NoAErr]_avars

\* Another goroutine called Abort while the VM waited in an Options event:
\* the state is Stopped, the abort message is in the channel and the call
\* has returned nil.
C19_Witness ==
  /\ vmth.pc = "wait"
  /\ vmth.kind = "Options"
  /\ astate = VMStateStopped
  /\ callers["user"].op = "Abort"
  /\ callers["user"].at = VMStatePausedOptions
  /\ callers["user"].pc = "idle"
  /\ callers["user"].err = NoAErr
  /\ msgCh = <<abortMsg(errDummy)>>

\* --------------------------------------------------------------------
\* C20
\* --------------------------------------------------------------------

\* The VM calls an event method of the adapter in this step.
Issues == Len(issued') = Len(issued) + 1

\* C20: once the state is Stopped no step changes it; a call of Go or
\* GoWithChoice made then sends nothing and returns a VMStateMismatchErr
\* whose Got is Stopped, a call of Abort returns ErrAlreadyStopped at once
\* and sends nothing, and an event method the VM calls returns a
\* VMStateMismatchErr whose Got is Stopped without calling the async
\* handler, which ends Run with that error.
C20_StoppedIsAbsorbing ==
  [][astate = VMStateStopped =>
       /\ astate' = VMStateStopped
       /\ delivered' = delivered
       /\ \A t \in Threads :
            /\ Begins(t) => callers'[t].pc = "load" /\ msgCh' = msgCh
            /\ Fails(t) =>
                 callers'[t].err =
                   VMStateMismatchErr(VMStateStopped, Required(callers[t].op),
                                      VMStateRunning)
            /\ Aborts(t) =>
                 /\ callers'[t].pc = "idle"
                 /\ callers'[t].err = ErrAlreadyStopped
                 /\ msgCh' = msgCh
       /\ Issues => vmth'.pc = "load" /\ msgCh' = msgCh
       /\ vmth.pc = "load" /\ vmth'.pc # "load" =>
            /\ vmth'.stage = "returned"
            /\ aresult' = VMStateMismatchErr(VMStateStopped, VMStateRunning,
                            IF vmth.kind = "Options"
                              THEN VMStatePausedOptions ELSE VMStatePaused)]_avars

\* After an Abort from another goroutine ended an event, that goroutine
\* called Abort again and got ErrAlreadyStopped, and the VM's next event,
\* NodeComplete, made Run return the mismatch error; the async handler has
\* seen one event fewer than the VM issued.
C20_Witness ==
  /\ astate = VMStateStopped
  /\ vmth.stage = "returned"
  /\ aresult = VMStateMismatchErr(VMStateStopped, VMStateRunning, VMStatePaused)
  /\ callers["user"].n = 2
  /\ callers["user"].op = "Abort"
  /\ callers["user"].err = ErrAlreadyStopped
  /\ Len(issued) = Len(delivered) + 1
  /\ issued[Len(issued)] = "NodeComplete"

\* --------------------------------------------------------------------
\* C21
\* --------------------------------------------------------------------

\* Run returns in this step.
RunReturns == vmth.stage # "returned" /\ vmth'.stage = "returned"

\* A call Abort(errDummy) has sent its message, so it has returned nil, and
\* the VM has not received the message.
AbortQueued(err) == \E i \in 1 .. Len(msgCh) : msgCh[i] = abortMsg(err)

\* C21: after Abort(err) with a non-nil err has returned nil, Run returns
\* err, from the event the VM is in or from the next event it issues,
\* whatever state the adapter was in when Abort was called.
C21_RunReturnsTheAbortError ==
  [][RunReturns /\ AbortQueued(errDummy) => aresult' = errDummy]_avars

\* --------------------------------------------------------------------
\* C22
\* --------------------------------------------------------------------

\* An event of the body returned Stop, which only the message of Abort(nil)
\* makes it do: Run has left the instruction loop for its last two events.
StoppedByAbort == vmth.stage \in {"NodeComplete", "DialogueComplete"}

\* C22: when Abort(nil) ends an event of a run with Stop, the NodeComplete
\* and DialogueComplete events that follow are delivered to the async
\* handler and Run returns nil.
C22_AbortNilEndsCleanly ==
  [][StoppedByAbort =>
       /\ Issues => Delivers
       /\ RunReturns => aresult' = NoAErr]_avars

\* --------------------------------------------------------------------
\* C23
\* --------------------------------------------------------------------

\* C23: from NewAsyncAdapter until the VM issues the first event of a run,
\* State() is VMStateStopped.
C23_NewAdapterIsStopped == issued = <<>> => astate = VMStateStopped

\* --------------------------------------------------------------------
\* C24
\* --------------------------------------------------------------------

\* Run has returned nil after every event, DialogueComplete last, was
\* delivered and continued with Go or GoWithChoice.
CompletedNormally ==
  /\ RunCompleted
  /\ delivered = issued
  /\ continues = Len(delivered)

\* C24: after a run has completed normally the state is Stopped and a call
\* of Abort returns ErrAlreadyStopped.
C24_CompletedRunIsStopped ==
  /\ [](CompletedNormally => astate = VMStateStopped)
  /\ [][CompletedNormally =>
          \A t \in Threads :
            Aborts(t) => callers'[t].err = ErrAlreadyStopped]_avars

----------------------------------------------------------------------------
(* Instructions that only peek.                                            *)

\* The step executed this opcode and the loop goes on (no error).
Passed(op) == Executed(op) /\ phase' = "loop"

\* C30: JUMP, JUMP_IF_FALSE and STORE_VARIABLE read the top of the stack
\* without popping it: after any of them succeeds the stack is as before
\* and the handler has not been called.  STORE_VARIABLE sets the variable
\* named by its operand to the top value and advances PC by 1;
\* JUMP_IF_FALSE advances PC by 1 when the top converts to true and
\* otherwise sets PC to the index of its label; JUMP sets PC to the index
\* of the label on top of the stack.
C30_PeekingInstructionsKeepTheStack ==
  [][/\ Passed("JUMP") =>
          /\ state' = [state EXCEPT !.pc = IndexHere(Top(state).s)]
          /\ vars' = vars
     /\ Passed("JUMP_IF_FALSE") =>
          /\ state' = [state EXCEPT !.pc =
               IF ConvertToBool(Top(state)) THEN @ + 1 ELSE IndexHere(Cur.a)]
          /\ vars' = vars
     /\ Passed("STORE_VARIABLE") =>
          /\ state' = [state EXCEPT !.pc = @ + 1]
          /\ vars' = [vars EXCEPT ![Cur.a] = Top(state)]
     /\ Passed("JUMP") \/ Passed("JUMP_IF_FALSE") \/ Passed("STORE_VARIABLE") =>
          /\ state.stack # <<>>
          /\ state'.stack = state.stack
          /\ Len(Added) = 1]_vmvars

\* STORE_VARIABLE stored the top of a two-value stack and the following
\* PUSH_VARIABLE found both values still there.
C30_Witness ==
  /\ Len(calls) >= 2
  /\ calls[Len(calls)].arg = "PUSH_VARIABLE"
  /\ calls[Len(calls) - 1].arg = "STORE_VARIABLE"
  /\ Len(calls[Len(calls) - 1].at.stack) = 2
  /\ calls[Len(calls)].at.stack = calls[Len(calls) - 1].at.stack
  /\ calls[Len(calls)].at.pc = calls[Len(calls) - 1].at.pc + 1
  /\ vars["$y"] = Top(calls[Len(calls) - 1].at)

\* ====================================================================
\* MapVariableStorage (debug.go): a map guarded by a sync.RWMutex.  Each
\* method is a call, the acquisition of the mutex, the accesses to the
\* map one at a time, and the deferred release.
\* ====================================================================

\* Calls each goroutine makes on the storage, at most this many.
MaxStorageCalls == 2

StoredValues == {FloatValue(1), FloatValue(2)}

\* The calls the goroutines make.
StorageCalls ==
  {[NoOp EXCEPT !.op = "SetValue", !.name = k, !.value = v] :
     k \in VarNames, v \in StoredValues}
  \cup {[NoOp EXCEPT !.op = "GetValue", !.name = k] : k \in VarNames}
  \cup {[NoOp EXCEPT !.op = o] : o \in {"Clear", "Contents", "Clone"}}
  \cup {[NoOp EXCEPT !.op = "Delete", !.names = ns] :
          ns \in {<<"$x">>, <<"$y", "$x">>}}
  \cup {[NoOp EXCEPT !.op = "ReplaceContents", !.src = src] :
          src \in {EmptyMap, [EmptyMap EXCEPT !["$y"] = FloatValue(2)]}}

\* Every method takes the read lock for reading.
OpLockShared(op) == "RLock"

\* The lock each method takes: m.mu.RLock() in GetValue, Contents and
\* Clone, m.mu.Lock() in the others.
OpLock(op) ==
  IF op \in {"GetValue", "Contents", "Clone"} THEN "RLock" ELSE "Lock"

\* The method is called; ReplaceContents copies src before it locks.
StorageCall(t) ==
  /\ goroutines[t].pc = "idle"
  /\ goroutines[t].n < MaxStorageCalls
  /\ \E c \in StorageCalls :
       goroutines' = [goroutines EXCEPT ![t] =
         [c EXCEPT !.pc = "lock", !.n = goroutines[t].n + 1]]
  /\ UNCHANGED <<storage, done>>
  /\ UNCHANGED <<vmvars, avars, rvars>>

\* What the loop of the method has to visit once it holds the mutex.
Visits(c) ==
  CASE c.op = "Delete" -> {c.names[i] : i \in 1 .. Len(c.names)}
    [] c.op \in {"Contents", "Clone"} -> VarNames
    [] OTHER -> {}

Entered(t) ==
  goroutines' = [goroutines EXCEPT ![t] =
    [@ EXCEPT !.pc = "body", !.left = Visits(goroutines[t])]]

\* sync.RWMutex.Lock: waits for the writer and the readers to release.
Lock(t) ==
  /\ goroutines[t].pc = "lock"
  /\ OpLock(goroutines[t].op) = "Lock"
  /\ storage.mu = [w |-> "", r |-> {}]
  /\ storage' = [storage EXCEPT !.mu.w = t]
  /\ Entered(t)
  /\ UNCHANGED done
  /\ UNCHANGED <<vmvars, avars, rvars>>

\* sync.RWMutex.RLock: waits for the writer to release.
RLock(t) ==
  /\ goroutines[t].pc = "lock"
  /\ OpLock(goroutines[t].op) = "RLock"
  /\ storage.mu.w = ""
  /\ storage' = [storage EXCEPT !.mu.r = @ \cup {t}]
  /\ Entered(t)
  /\ UNCHANGED done
  /\ UNCHANGED <<vmvars, avars, rvars>>

\* The goroutine is between locking and unlocking, in this method.
In(t, op) == goroutines[t].pc = "body" /\ goroutines[t].op = op

\* The body has run; the deferred unlock is next.
Leaves(t, c) == goroutines' = [goroutines EXCEPT ![t] = [c EXCEPT !.pc = "unlock"]]

\* m.m[name] = value
SetValue(t) ==
  /\ In(t, "SetValue")
  /\ storage' = [storage EXCEPT !.m[goroutines[t].name] = goroutines[t].value]
  /\ Leaves(t, goroutines[t])
  /\ UNCHANGED done
  /\ UNCHANGED <<vmvars, avars, rvars>>

\* value, found = m.m[name]
GetValue(t) ==
  /\ In(t, "GetValue")
  /\ Leaves(t, [goroutines[t] EXCEPT !.got = storage.m[goroutines[t].name]])
  /\ UNCHANGED <<storage, done>>
  /\ UNCHANGED <<vmvars, avars, rvars>>

\* for name := range m.m { delete(m.m, name) }: one key per step, in the
\* order the map iteration yields them.
Clear(t) ==
  /\ In(t, "Clear")
  /\ IF storage.m = EmptyMap
       THEN Leaves(t, goroutines[t]) /\ UNCHANGED storage
       ELSE /\ \E k \in VarNames :
                 /\ storage.m[k] # Unset
                 /\ storage' = [storage EXCEPT !.m[k] = Unset]
            /\ UNCHANGED goroutines
  /\ UNCHANGED done
  /\ UNCHANGED <<vmvars, avars, rvars>>

\* for _, name := range names { delete(m.m, name) }
Delete(t) ==
  /\ In(t, "Delete")
  /\ LET c == goroutines[t]
     IN IF c.left = {}
          THEN Leaves(t, c) /\ UNCHANGED storage
          ELSE LET i == CHOOSE i \in 1 .. Len(c.names) :
                            /\ c.names[i] \in c.left
                            /\ \A j \in 1 .. i - 1 : c.names[j] \notin c.left
               IN /\ storage' = [storage EXCEPT !.m[c.names[i]] = Unset]
                  /\ goroutines' = [goroutines EXCEPT ![t].left = @ \ {c.names[i]}]
  /\ UNCHANGED done
  /\ UNCHANGED <<vmvars, avars, rvars>>

\* copyMap(m.m) in Contents and in Clone (NewMapVariableStorageFromMap):
\* one key per step.
copyMap(t) ==
  /\ goroutines[t].pc = "body"
  /\ goroutines[t].op \in {"Contents", "Clone"}
  /\ LET c == goroutines[t]
     IN IF c.left = {}
          THEN Leaves(t, c)
          ELSE \E k \in c.left :
                 goroutines' = [goroutines EXCEPT ![t] =
                   [c EXCEPT !.left = @ \ {k}, !.out[k] = storage.m[k]]]
  /\ UNCHANGED <<storage, done>>
  /\ UNCHANGED <<vmvars, avars, rvars>>

\* m.m = m2
ReplaceContents(t) ==
  /\ In(t, "ReplaceContents")
  /\ storage' = [storage EXCEPT !.m = goroutines[t].src]
  /\ Leaves(t, goroutines[t])
  /\ UNCHANGED done
  /\ UNCHANGED <<vmvars, avars, rvars>>

\* The contents after the call, had it run alone on these contents.
Applied(c, m) ==
  CASE c.op = "SetValue" -> [m EXCEPT ![c.name] = c.value]
    [] c.op = "Clear" -> EmptyMap
    [] c.op = "Delete" ->
         [k \in VarNames |->
            IF k \in Visits(c) THEN Unset ELSE m[k]]
    [] c.op = "ReplaceContents" -> c.src
    [] OTHER -> m

\* The deferred m.mu.Unlock() or m.mu.RUnlock(); the method returns.
Unlock(t) ==
  /\ goroutines[t].pc = "unlock"
  /\ storage' = [storage EXCEPT !.mu =
       [w |-> IF @.w = t THEN "" ELSE @.w, r |-> @.r \ {t}]]
  /\ goroutines' = [goroutines EXCEPT ![t].pc = "idle"]
  /\ done' = Applied(goroutines[t], done)
  /\ UNCHANGED <<vmvars, avars, rvars>>

NextStorage ==
  \E t \in Threads :
    \/ StorageCall(t)
    \/ Lock(t)
    \/ RLock(t)
    \/ SetValue(t)
    \/ GetValue(t)
    \/ Clear(t)
    \/ Delete(t)
    \/ copyMap(t)
    \/ ReplaceContents(t)
    \/ Unlock(t)

InitStorage ==
  /\ NewMapVariableStorage
  /\ NoRenderer
  /\ NewAsyncAdapter
  /\ program = [n \in NodeNames |-> BodyEmpty]
  /\ state = NewState("")
  /\ vars = <<>>
  /\ calls = <<>>
  /\ phase = "idle"
  /\ result = Pending
  /\ detail = <<>>
  /\ runs = 0

SpecStorage == InitStorage /\ [][NextStorage]_stvars

----------------------------------------------------------------------------
(* Atomicity of the storage.                                               *)

\* The goroutine holds the mutex and its method writes, or reads, the map.
Inside(t) == goroutines[t].pc \in {"body", "unlock"}
Writing(t) == Inside(t) /\ goroutines[t].op \notin {"GetValue", "Contents", "Clone"}
Reading(t) == Inside(t) /\ goroutines[t].op \in {"GetValue", "Contents", "Clone"}

\* The step returns from this method.
Returns(t, op) == goroutines[t].op = op /\ Unlock(t)

\* C25: the operations of MapVariableStorage are atomic with respect to
\* each other: no goroutine is reading or writing the map while another
\* is writing it; whenever no write is in progress the map holds exactly
\* the effects of the writes that returned, in the order they returned;
\* GetValue(k) returns the value of the latest completed SetValue(k, v)
\* that has not since been removed or replaced (not found otherwise), and
\* Contents and Clone return those contents whole.
C25_StorageOperationsAreAtomic ==
  /\ [](\A t, u \in Threads : t # u /\ Writing(t) => ~Writing(u) /\ ~Reading(u))
  /\ []((\A t \in Threads : ~Writing(t)) => storage.m = done)
  /\ [][\A t \in Threads :
          /\ Returns(t, "GetValue") => goroutines[t].got = done[goroutines[t].name]
          /\ Returns(t, "Contents") \/ Returns(t, "Clone") => goroutines[t].out = done]_stvars

\* GetValue read a stored value under the read lock while the other
\* goroutine, in Clear, waits for the mutex.
C25_Witness ==
  /\ goroutines["vm"].op = "GetValue" /\ goroutines["vm"].pc = "unlock"
  /\ goroutines["vm"].got = FloatValue(2)
  /\ storage.mu = [w |-> "", r |-> {"vm"}]
  /\ goroutines["user"].op = "Clear" /\ goroutines["user"].pc = "lock"
  /\ done = [EmptyMap EXCEPT ![goroutines["vm"].name] = FloatValue(2)]

\* ====================================================================
\* AttributedString.ScanAttribEvents (string table source): the start and
\* the end of every attribute, visited in one pass over two sorted copies
\* of the attribute list.
\* ====================================================================

\* Attributes of a drawn AttributedString, at most this many.
MaxAttribs == 3

\* Byte positions of the drawn attributes.
Positions == {0, 1, 2}

\* An Attribute; id tells the pointers apart (the order of creation).
Attribute(id, start, end, name) ==
  [id |-> id, Start |-> start, End |-> end, Name |-> name]

\* The attribute lists a caller can put in an AttributedString, Start
\* after End included (the scan does not read Name).
AttributeLists ==
  UNION {{[i \in 1 .. n |-> Attribute(i, f[i][1], f[i][2], "a")] :
            f \in [1 .. n -> Positions \X Positions]} :
         n \in 0 .. MaxAttribs}

\* sort.SliceStable(s, less) with less comparing key: the elements in
\* order of key, those of equal key in their order in s.
SliceStable(s, key(_)) ==
  LET before(i) ==
        {j \in 1 .. Len(s) :
           key(s[j]) < key(s[i]) \/ (key(s[j]) = key(s[i]) /\ j < i)}
  IN [r \in 1 .. Len(s) |->
        s[CHOOSE i \in 1 .. Len(s) : Cardinality(before(i)) = r - 1]]

StartOf(a) == a.Start
EndOf(a) == a.End

\* A call of visit.
Event(a, start) == [att |-> a, start |-> start]

\* The loop's test with < for <=.
StartsFirstStrict(s, e) == s.Start < e.End

\* starts[i].Start <= ends[j].End
StartsFirst(s, e) == s.Start <= e.End

\* The two loops of ScanAttribEvents from i and j (counted from 1) on.
RECURSIVE March(_, _, _, _)
March(starts, ends, i, j) ==
  IF i <= Len(starts) /\ j <= Len(ends)
    THEN IF StartsFirst(starts[i], ends[j])
           THEN <<Event(starts[i], TRUE)>> \o March(starts, ends, i + 1, j)
           ELSE <<Event(ends[j], FALSE)>> \o March(starts, ends, i, j + 1)
    ELSE [k \in 1 .. Len(ends) - j + 1 |-> Event(ends[j + k - 1], FALSE)]

\* ScanAttribEvents: s.Attributes is sorted by Start in place, ends is a
\* copy of the sorted slice sorted again by End.
ScanAttribEvents(c) ==
  /\ lr[c].pc = "returned"
  /\ LET starts == SliceStable(astr[c].Attributes, StartOf)
         ends == SliceStable(starts, EndOf)
     IN /\ astr' = [astr EXCEPT ![c].Attributes = starts]
        /\ visited' = [visited EXCEPT ![c] = March(starts, ends, 1, 1)]
  /\ lr' = [lr EXCEPT ![c].pc = "scanned"]
  /\ UNCHANGED <<row, renders>>
  /\ UNCHANGED <<vmvars, avars, stvars>>

\* No VirtualMachine runs.
NoVirtualMachine ==
  /\ program = [n \in NodeNames |-> BodyEmpty]
  /\ state = NewState("")
  /\ vars = <<>>
  /\ calls = <<>>
  /\ phase = "idle"
  /\ result = Pending
  /\ detail = <<>>
  /\ runs = 0

\* An AttributedString made by the caller, about to be scanned.
InitScan ==
  /\ NoVirtualMachine
  /\ NewAsyncAdapter
  /\ NewMapVariableStorage
  /\ row = StringTableRow(<<>>)
  /\ renders = [t \in Threads |-> NoRender]
  /\ lr = [c \in Calls |->
             [NewLineRenderer EXCEPT !.pc = IF c = 1 THEN "returned" ELSE "scanned"]]
  /\ \E as \in AttributeLists :
       astr = [c \in Calls |->
                 IF c = 1 THEN [Str |-> <<>>, Attributes |-> as]
                 ELSE NoAttributedString]
  /\ visited = [c \in Calls |-> <<>>]

NextScan == \E c \in Calls : ScanAttribEvents(c)

SpecScan == InitScan /\ [][NextScan]_rvars

----------------------------------------------------------------------------
(* The order of the scan.                                                  *)

WellFormed(as) == \A i \in 1 .. Len(as) : as[i].Start <= as[i].End

\* The byte position of an event.
Position(e) == IF e.start THEN e.att.Start ELSE e.att.End

\* Where visit was called with this attribute, at its start or its end.
VisitsOf(v, a, start) == {k \in 1 .. Len(v) : v[k] = Event(a, start)}

MaxFragments == 4

\* A select format function whose value "m" has the branch "%y".
SelectLexeme == "[select value=\"m\" m=\"%y\" /]"

\* A character, tags of the two names, the close-all tag, a format
\* function, a closing tag with the name of a format function, the empty
\* tag, and an unclosed bracket.
Lexemes ==
  {"x", "[a]", "[b]", "[/a]", "[/]", "[a/]", SelectLexeme, "[/select]", "[]", "["}

Texts == UNION {[1 .. n -> Lexemes] : n \in 0 .. MaxFragments}

\* parsedProp (the Value a quoted string, one element for each byte),
\* parsedMarkupTag and fragment.
Prop(key, value) == [Key |-> key, Value |-> value]
MarkupProps(os, name, props, cs) ==
  [nil |-> FALSE, OpeningSlash |-> os, Name |-> name, Props |-> props,
   ClosingSlash |-> cs]
Markup(os, name, cs) == MarkupProps(os, name, <<>>, cs)
NoMarkup ==
  [nil |-> TRUE, OpeningSlash |-> "", Name |-> "", Props |-> <<>>,
   ClosingSlash |-> ""]
Fragment(text, markup) == [Text |-> text, Markup |-> markup]

\* What lineLexer and lineParser make of a lexeme: Char, or Markup with
\* the optional Slash, Ident and Slash up to MarkupEnd.
ParseLexeme(l) ==
  CASE l = "x" -> Fragment("x", NoMarkup)
    [] l = "[a]" -> Fragment("", Markup("", "a", ""))
    [] l = "[b]" -> Fragment("", Markup("", "b", ""))
    [] l = "[/a]" -> Fragment("", Markup("/", "a", ""))
    [] l = "[/]" -> Fragment("", Markup("/", "", ""))
    [] l = "[a/]" -> Fragment("", Markup("", "a", "/"))
    [] l = SelectLexeme ->
         Fragment("", MarkupProps("", "select",
           <<Prop("value", <<"m">>), Prop("m", <<"%", "y">>)>>, "/"))
    [] l = "[/select]" -> Fragment("", Markup("/", "select", ""))
    [] l = "[]" -> Fragment("", Markup("", "", ""))

\* lineParser.ParseString: a Markup without its MarkupEnd is an error.
ParseString(text) ==
  IF \E i \in 1 .. Len(text) : text[i] = "["
    THEN [err |-> [kind |-> "Parse", name |-> ""], pt |-> NilParsed]
    ELSE [err |-> NoRenderErr,
          pt |-> Parsed([i \in 1 .. Len(text) |-> ParseLexeme(text[i])])]

\* parseIfNeeded: the row after it and the error it returns.
parseIfNeeded(r) ==
  IF r.Text = r.origText /\ ~r.parsedText.nil
    THEN [row |-> r, err |-> NoRenderErr]
  ELSE IF ParseString(r.Text).err # NoRenderErr
    THEN [row |-> r, err |-> ParseString(r.Text).err]
  ELSE [row |-> [r EXCEPT !.origText = r.Text,
                          !.parsedText = ParseString(r.Text).pt],
        err |-> NoRenderErr]

\* b.WriteString(s), one element of Str for each byte.
WriteString(b, s) == [b EXCEPT !.Str = @ \o s]

\* openTag that starts the Attribute one byte after the output.
openTagAfter(b, name) ==
  [b EXCEPT !.open[name] = Append(@, Attribute(b.made + 1, Len(b.Str) + 1, 0, name)),
            !.made = @ + 1]

\* openTag: a new Attribute starting at the length of the output,
\* appended to the open tags of its name.
openTag(b, name) ==
  [b EXCEPT !.open[name] = Append(@, Attribute(b.made + 1, Len(b.Str), 0, name)),
            !.made = @ + 1]

TagNotOpen(name) == [kind |-> "TagNotOpen", name |-> name]
KeyNotFound(key) == [kind |-> "KeyNotFound", name |-> key]

\* closeTag that closes the first open tag of the name.
closeTagFirst(b, name) ==
  IF name \notin TagNames \/ b.open[name] = <<>>
    THEN [b EXCEPT !.err = TagNotOpen(name)]
    ELSE [b EXCEPT !.open[name] = Tail(@),
                   !.attribs = Append(@, [b.open[name][1] EXCEPT !.End = Len(b.Str)])]

\* closeTag: the last open tag of the name ends at the length of the
\* output and is appended to attribs.
closeTag(b, name) ==
  IF name \notin TagNames \/ b.open[name] = <<>>
    THEN [b EXCEPT !.err = TagNotOpen(name)]
    ELSE LET l == Len(b.open[name])
         IN [b EXCEPT !.open[name] = SubSeq(@, 1, l - 1),
                      !.attribs = Append(@, [b.open[name][l] EXCEPT !.End = Len(b.Str)])]

\* The orders in which range b.open can yield the names with open tags.
RangeOrders(b) ==
  LET names == {n \in TagNames : b.open[n] # <<>>}
  IN {o \in [1 .. Cardinality(names) -> names] :
        \A i, j \in DOMAIN o : o[i] = o[j] => i = j}

\* The tags of the names in this order, each ending at len.
RECURSIVE Closed(_, _, _)
Closed(open, order, len) ==
  IF order = <<>> THEN <<>>
  ELSE [i \in 1 .. Len(open[Head(order)]) |->
          [open[Head(order)][i] EXCEPT !.End = len]]
       \o Closed(open, Tail(order), len)

\* closeAll, the map iteration yielding the names in this order.
closeAll(b, order) ==
  [b EXCEPT !.attribs = @ \o Closed(b.open, order, Len(b.Str)),
            !.open = [n \in TagNames |-> <<>>]]

\* propValueForKey: the Value of the first property with the key.
propValueForKey(f, key) ==
  IF \E i \in 1 .. Len(f.Props) : f.Props[i].Key = key
    THEN [err |-> NoRenderErr,
          val |-> f.Props[CHOOSE i \in 1 .. Len(f.Props) :
                            /\ f.Props[i].Key = key
                            /\ \A j \in 1 .. i - 1 : f.Props[j].Key # key].Value]
    ELSE [err |-> KeyNotFound(key), val |-> <<>>]

\* The bytes renderFormatFuncValue writes for a value: the input for each
\* % and the other characters as they are.
RECURSIVE FormatFuncValue(_, _)
FormatFuncValue(val, input) ==
  IF val = <<>> THEN <<>>
  ELSE (IF Head(val) = "%" THEN input ELSE <<Head(val)>>)
       \o FormatFuncValue(Tail(val), input)

\* renderSelectFormatFunc: the value of "value" is the key of the branch
\* to render (keys here are one byte long).
renderSelectFormatFunc(b, f) ==
  LET input == propValueForKey(f, "value")
      val == propValueForKey(f, input.val[1])
  IN IF input.err # NoRenderErr THEN [b EXCEPT !.err = input.err]
     ELSE IF val.err # NoRenderErr THEN [b EXCEPT !.err = val.err]
     ELSE WriteString(b, FormatFuncValue(val.val, input.val))

renderMarkupTag(b, f, order) ==
  CASE f.Name = "select" -> renderSelectFormatFunc(b, f)
    [] f.Name # "select" /\ f.OpeningSlash = "/" /\ f.Name = "" -> closeAll(b, order)
    [] f.Name # "select" /\ f.OpeningSlash = "/" /\ f.Name # "" -> closeTag(b, f.Name)
    [] f.Name # "select" /\ f.OpeningSlash # "/" /\ f.ClosingSlash = "/" ->
         closeTag(openTag(b, f.Name), f.Name)
    [] f.OpeningSlash # "/" /\ f.ClosingSlash # "/" /\ f.Name \notin {"", "select"} ->
         openTag(b, f.Name)
    [] OTHER -> WriteString(b, <<"[", "]">>)

\* StringTableRow.Render up to renderString: parseIfNeeded and a new
\* lineRenderer.  The second call is made when the first has ended.
Render(c) ==
  /\ lr[c].pc = "idle"
  /\ c = 2 => lr[1].pc \in {"failed", "scanned"}
  /\ LET p == parseIfNeeded(row)
     IN /\ row' = p.row
        /\ lr' = [lr EXCEPT ![c] =
             IF p.err # NoRenderErr
               THEN [NewLineRenderer EXCEPT !.pc = "failed", !.err = p.err]
               ELSE [NewLineRenderer EXCEPT !.pc = "render", !.idx = 1]]
  /\ UNCHANGED <<renders, astr, visited>>
  /\ UNCHANGED <<vmvars, avars, stvars>>

\* The fragment renderString is about to render.
Here(c) == row.parsedText.Fragments[lr[c].idx]
Rendering(c) == lr[c].pc = "render" /\ lr[c].idx <= Len(row.parsedText.Fragments)

\* renderFragment: one turn of the loop of renderString, which returns
\* the first error.
renderFragment(c) ==
  /\ Rendering(c)
  /\ \E order \in RangeOrders(lr[c]) :
       LET b == IF Here(c).Markup.nil
                  THEN WriteString(lr[c], <<Here(c).Text>>)
                  ELSE renderMarkupTag(lr[c], Here(c).Markup, order)
       IN lr' = [lr EXCEPT ![c] =
            IF b.err # NoRenderErr THEN [b EXCEPT !.pc = "failed"]
            ELSE [b EXCEPT !.idx = @ + 1]]
  /\ UNCHANGED <<row, renders, astr, visited>>
  /\ UNCHANGED <<vmvars, avars, stvars>>

\* renderString is through; Render returns lr.attStr().
attStr(c) ==
  /\ lr[c].pc = "render"
  /\ lr[c].idx > Len(row.parsedText.Fragments)
  /\ astr' = [astr EXCEPT ![c] = [Str |-> lr[c].Str, Attributes |-> lr[c].attribs]]
  /\ lr' = [lr EXCEPT ![c].pc = "returned"]
  /\ UNCHANGED <<row, renders, visited>>
  /\ UNCHANGED <<vmvars, avars, stvars>>

\* A row written by hand, rendered twice with the same substitutions, each
\* result scanned.
InitRender ==
  /\ NoVirtualMachine
  /\ NewAsyncAdapter
  /\ NewMapVariableStorage
  /\ \E text \in Texts : row = StringTableRow(text)
  /\ renders = [t \in Threads |-> NoRender]
  /\ lr = [c \in Calls |-> NewLineRenderer]
  /\ astr = [c \in Calls |-> NoAttributedString]
  /\ visited = [c \in Calls |-> <<>>]

NextRender ==
  \E c \in Calls :
    \/ Render(c)
    \/ renderFragment(c)
    \/ attStr(c)
    \/ ScanAttribEvents(c)

SpecRender == InitRender /\ [][NextRender]_rvars

----------------------------------------------------------------------------
(* Closing tags.                                                           *)

\* The names renderMarkupTag gives to the format functions.
FormatFuncs == {"select", "plural", "ordinal"}

\* The call is about to render a closing tag with a name, and the step
\* renders it.
Closing(c) ==
  /\ Rendering(c)
  /\ ~Here(c).Markup.nil
  /\ Here(c).Markup.OpeningSlash = "/" /\ Here(c).Markup.Name # ""
  /\ lr'[c] # lr[c]

\* The spans of this name opened and not closed, and the one opened last.
OpenSpans(b, name) ==
  IF name \in TagNames
    THEN {b.open[name][i] : i \in 1 .. Len(b.open[name])}
    ELSE {}
MostRecent(S) == CHOOSE a \in S : \A a2 \in S : a2.id <= a.id

\* The step closes the span of the name opened last, at the length of the
\* output, or fails with the tag-not-open error when there is none.
ClosesMostRecent(c) ==
  LET b == lr[c]
      name == Here(c).Markup.Name
      S == OpenSpans(b, name)
  IN IF S # {}
       THEN /\ lr'[c].attribs = Append(b.attribs, [MostRecent(S) EXCEPT !.End = Len(b.Str)])
            /\ OpenSpans(lr'[c], name) = S \ {MostRecent(S)}
            /\ \A n \in TagNames \ {name} : lr'[c].open[n] = b.open[n]
            /\ lr'[c].Str = b.Str
            /\ lr'[c].pc = "render" /\ lr'[c].idx = b.idx + 1
       ELSE /\ lr'[c] = [b EXCEPT !.pc = "failed", !.err = TagNotOpen(name)]

\* C28 as stated: a closing tag [/name] closes the most recently opened
\* still-open span of that name, setting its End to the current output
\* byte length; if no span of that name is open (never opened, already
\* closed, or closed by [/]) rendering fails with the unopened-tag error.
C28_ClosingTagClosesMostRecent ==
  [][\A c \in Calls : Closing(c) => ClosesMostRecent(c)]_rvars

\* C28 amended: that holds of every name but those of the format
\* functions; a closing tag named select, plural or ordinal is rendered as
\* the format function, which (without a value property) fails with the
\* key-not-found error.
C28_ClosingTagClosesMostRecentUnlessFormatFunc ==
  [][\A c \in Calls :
       Closing(c) =>
         IF Here(c).Markup.Name \in FormatFuncs
           THEN lr'[c] = [lr[c] EXCEPT !.pc = "failed", !.err = KeyNotFound("value")]
           ELSE ClosesMostRecent(c)]_rvars

\* [a][a]x[/a]: the second span was closed at length 1 and the first is
\* still open.
C28_Witness ==
  /\ row.Text = <<"[a]", "[a]", "x", "[/a]">>
  /\ lr[1].pc = "render" /\ lr[1].idx = 5
  /\ lr[1].attribs = <<Attribute(2, 0, 1, "a")>>
  /\ lr[1].open["a"] = <<Attribute(1, 0, 0, "a")>>

----------------------------------------------------------------------------
(* Two renders of the same text.                                           *)

\* C29: rendering the same text with the same substitutions twice yields
\* the Attributes in the same order, and ScanAttribEvents visits the
\* events in the same order, also when [/] closes open spans of several
\* names together.
C29_AttributeOrderIsDeterministic ==
  /\ lr[1].pc \in {"returned", "scanned"} /\ lr[2].pc \in {"returned", "scanned"}
       => lr[1].attribs = lr[2].attribs
  /\ lr[1].pc = "scanned" /\ lr[2].pc = "scanned" => visited[1] = visited[2]

\* ====================================================================
\* Concurrent Render calls on one StringTableRow: parseIfNeeded reads and
\* writes the row's origText and parsedText with no synchronisation, so
\* each access is a step of its own.
\* ====================================================================

\* Render calls each goroutine makes on the row, at most this many.
MaxRenders == 2

\* The Text a row can have: plain, marked up, malformed.
RowTexts == {<<"x">>, <<"[a]", "x", "[/a]">>, <<"[">>}

\* The row ReadStringTable makes of a text it accepts.
ReadStringTable(text) == parseIfNeeded(StringTableRow(text)).row

\* row.Render(substs, lang) is called.
RenderCall(t) ==
  /\ renders[t].pc = "idle"
  /\ renders[t].n < MaxRenders
  /\ renders' = [renders EXCEPT ![t] = [NoRender EXCEPT !.pc = "check", !.n = renders[t].n + 1]]
  /\ UNCHANGED <<row, lr, astr, visited>>
  /\ UNCHANGED <<vmvars, avars, stvars>>

\* Another goroutine is about to write this field.
Written(t, field) == \E u \in Threads \ {t} : renders[u].pc = field

\* parseIfNeeded's test r.Text == r.origText && r.parsedText != nil.  A
\* read of origText that overlaps another goroutine's write of it is a
\* data race on a two-word string: the comparison can go either way.
parseCheck(t) ==
  /\ renders[t].pc = "check"
  /\ \E same \in IF Written(t, "origText") THEN BOOLEAN ELSE {row.Text = row.origText} :
       renders' = [renders EXCEPT ![t].pc =
         IF same /\ ~row.parsedText.nil THEN "render" ELSE "parse"]
  /\ UNCHANGED <<row, lr, astr, visited>>
  /\ UNCHANGED <<vmvars, avars, stvars>>

\* lineParser.ParseString(filename, r.Text, pt); an error ends Render.
parse(t) ==
  /\ renders[t].pc = "parse"
  /\ LET p == ParseString(row.Text)
     IN renders' = [renders EXCEPT ![t] =
          IF p.err # NoRenderErr
            THEN [@ EXCEPT !.pc = "idle", !.err = p.err]
            ELSE [@ EXCEPT !.pc = "origText", !.text = row.Text, !.pt = p.pt]]
  /\ UNCHANGED <<row, lr, astr, visited>>
  /\ UNCHANGED <<vmvars, avars, stvars>>

\* r.origText = r.Text
writeOrigText(t) ==
  /\ renders[t].pc = "origText"
  /\ row' = [row EXCEPT !.origText = row.Text]
  /\ renders' = [renders EXCEPT ![t].pc = "parsedText"]
  /\ UNCHANGED <<lr, astr, visited>>
  /\ UNCHANGED <<vmvars, avars, stvars>>

\* r.parsedText = pt
writeParsedText(t) ==
  /\ renders[t].pc = "parsedText"
  /\ row' = [row EXCEPT !.parsedText = renders[t].pt]
  /\ renders' = [renders EXCEPT ![t].pc = "render"]
  /\ UNCHANGED <<lr, astr, visited>>
  /\ UNCHANGED <<vmvars, avars, stvars>>

\* lr.renderString(r.parsedText) and the return of Render: used is the
\* parsedString the call rendered.
renderString(t) ==
  /\ renders[t].pc = "render"
  /\ renders' = [renders EXCEPT ![t] = [@ EXCEPT !.pc = "idle", !.used = row.parsedText]]
  /\ UNCHANGED <<row, lr, astr, visited>>
  /\ UNCHANGED <<vmvars, avars, stvars>>

\* The program assigns the exported Text of a row it has rendered, while
\* no Render is in progress.
SetText ==
  /\ \A t \in Threads : renders[t].pc = "idle"
  /\ \E t \in Threads : renders[t].n < MaxRenders
  /\ row.Text = row.origText
  /\ \E text \in RowTexts \ {row.Text} : row' = [row EXCEPT !.Text = text]
  /\ UNCHANGED <<renders, lr, astr, visited>>
  /\ UNCHANGED <<vmvars, avars, stvars>>

\* A row written by hand or made by ReadStringTable.
InitRow ==
  /\ NoVirtualMachine
  /\ NewAsyncAdapter
  /\ NewMapVariableStorage
  /\ \E text \in RowTexts :
       \/ row = StringTableRow(text)
       \/ ParseString(text).err = NoRenderErr /\ row = ReadStringTable(text)
  /\ renders = [t \in Threads |-> NoRender]
  /\ lr = [c \in Calls |-> NewLineRenderer]
  /\ astr = [c \in Calls |-> NoAttributedString]
  /\ visited = [c \in Calls |-> <<>>]

NextRow ==
  \/ \E t \in Threads :
       \/ RenderCall(t)
       \/ parseCheck(t)
       \/ parse(t)
       \/ writeOrigText(t)
       \/ writeParsedText(t)
       \/ renderString(t)
  \/ SetText

SpecRow == InitRow /\ [][NextRow]_rvars

----------------------------------------------------------------------------
(* Safety of concurrent Render calls.                                      *)

\* The goroutine is inside Render.
InRender(t) == renders[t].pc # "idle"

\* C26: concurrent Render calls on the same StringTable are safe for any
\* StringTable, built by ReadStringTable or by hand: a Render call writes
\* no field of the row while another Render call is in progress, and a
\* Render that returns no error has rendered the row's Text.
C26_ConcurrentRenderIsSafe ==
  /\ [][\A t \in Threads :
          InRender(t) /\ row' # row => \A u \in Threads \ {t} : ~InRender(u)]_rvars
  /\ [][\A t \in Threads :
          renders[t].pc = "render" /\ renders'[t].pc = "idle" =>
            renders'[t].used = ParseString(row.Text).pt]_rvars

----------------------------------------------------------------------------
(* The execution state after a run.                                        *)

\* C31: the execution state is discarded when a run terminates: after Run
\* returns the VirtualMachine has no current node, an empty stack and an
\* empty options buffer, so the next Run that reaches SetNode's callbacks
\* makes NodeStart its first callback and calls no NodeComplete for the
\* node of the finished run.
C31_StateDiscardedWhenRunReturns ==
  /\ [](Returned => state = NewState(NoNode))
  /\ [][Returned /\ calls' # <<>> /\ phase' # phase =>
          calls'[1].m = "NodeStart"]_vmvars

----------------------------------------------------------------------------
(* The attributes Render returns.                                          *)

\* Render has returned an AttributedString from this call.
Rendered(c) == lr[c].pc \in {"returned", "scanned"}

InBounds(a, len) == 0 <= a.Start /\ a.Start <= a.End /\ a.End <= len

\* C32: every Attribute of an AttributedString produced by Render has
\* 0 <= Start <= End <= len(Str), for any text, nesting of tags,
\* self-closing tags and format functions; the closed spans satisfy it
\* throughout the rendering.
C32_AttributesWithinTheString ==
  \A c \in Calls :
    /\ \A i \in 1 .. Len(lr[c].attribs) : InBounds(lr[c].attribs[i], Len(lr[c].Str))
    /\ Rendered(c) =>
         /\ astr[c].Str = lr[c].Str
         /\ \A i \in 1 .. Len(astr[c].Attributes) :
              InBounds(astr[c].Attributes[i], Len(astr[c].Str))

\* A format function and a self-closing tag inside a span: the span
\* covers the two bytes of the format function and the self-closing tag
\* is the point at their end.
C32_Witness ==
  /\ row.Text = <<"[a]", SelectLexeme, "[a/]", "[/a]">>
  /\ lr[1].pc = "returned"
  /\ astr[1].Str = <<"m", "y">>
  /\ astr[1].Attributes = <<Attribute(2, 2, 2, "a"), Attribute(1, 0, 2, "a")>>

\* C39: every attribute markup tag opened in the text yields exactly one
\* Attribute of the rendered AttributedString: a span still open at the
\* end of the text is in Attributes, with an End no greater than len(Str).
C39_EveryOpenedTagYieldsAnAttribute ==
  \A c \in Calls :
    Rendered(c) =>
      /\ Len(lr[c].attribs) = lr[c].made
      /\ \A id \in 1 .. lr[c].made :
           \E i \in 1 .. Len(lr[c].attribs) :
             lr[c].attribs[i].id = id /\ lr[c].attribs[i].End <= Len(lr[c].Str)

----------------------------------------------------------------------------
(* NodeStart and NodeComplete.                                             *)

\* The calls of this method for this node in the run so far.
CallsFor(m, x) == {i \in CallsOf(m) : calls[i].arg = x}

\* C33: within one Run, at every point and for every node name x, the
\* NodeComplete(x) callbacks made so far are no more than the NodeStart(x)
\* callbacks made so far, whatever the handler returns.
C33_NodeCompleteNeverExceedsNodeStart ==
  \A x \in NodeNames :
    Cardinality(CallsFor("NodeComplete", x)) <= Cardinality(CallsFor("NodeStart", x))

----------------------------------------------------------------------------
(* Failing instructions.                                                   *)

\* The step executes an instruction that fails with an error other than
\* Stop, which Run returns.
InstructionFails == InLoop /\ state.pc < Len(Instructions) /\ phase' = "done"

\* C34: an instruction that fails with an error other than Stop (stack
\* underflow, wrong type, argument mismatch, unknown node or label,
\* invalid option index) leaves the operand stack, the options buffer and
\* PC exactly as they were before the instruction started.
C34_FailedInstructionChangesNothing ==
  [][InstructionFails =>
       /\ state'.stack = state.stack
       /\ state'.options = state.options
       /\ state'.pc = state.pc
       /\ state'.node = state.node]_vmvars

----------------------------------------------------------------------------
(* Progress of the adapter's calls.                                        *)

\* Goroutine t is inside a call of Go, GoWithChoice or Abort.
Calling(t) == callers[t].pc # "idle"

\* The goroutine in Run waits in waitForGo or waitForChoice for a message
\* that a successful call has sent or is about to send.
Continued ==
  /\ vmth.pc = "wait"
  /\ \/ msgCh # <<>>
     \/ \E t \in Threads : callers[t].pc = "send"

\* C35: no call of the adapter blocks forever, whatever the interleaving
\* of Go, GoWithChoice and Abort from callbacks and from other goroutines:
\* every call that has begun returns, and the goroutine in Run is never
\* left waiting once a continuation call has succeeded.
C35_NoCallBlocksForever ==
  /\ \A t \in Threads : Calling(t) ~> ~Calling(t)
  /\ Continued ~> vmth.pc # "wait"

----------------------------------------------------------------------------
(* The fields of VMStateMismatchErr.                                       *)

\* The VMStateMismatchErr values that calls and events have returned.
MismatchErrs ==
  {e \in {callers[t].err : t \in Threads} \cup {aresult} :
     e.kind = "VMStateMismatchErr"}

\* C37: every VMStateMismatchErr reports a Got that differs from its Want,
\* under any interleaving of the goroutines.
C37_MismatchReportsDifferentState == \A e \in MismatchErrs : e.got # e.want

----------------------------------------------------------------------------
(* The message an event receives.                                          *)

\* The two errors of waitForGo and waitForChoice for a message of the
\* wrong kind.
WrongMessageErrs == {ErrChoiceNotOptions, ErrGoOptions}

\* C38: with goroutines calling Go, GoWithChoice and Abort, the message
\* received in an event other than Options is always a go or an abort
\* message and the one received in an Options event always a choice or an
\* abort message: no event returns, and Run never returns, one of the two
\* wrong-message errors.
C38_WrongMessageErrorsUnreachable ==
  /\ [](aresult \notin WrongMessageErrs)
  /\ [][Receive =>
          LET msg == Head(msgCh)
          IN  IF vmth.kind = "Options"
                THEN msg.type \in {"choice", "abort"}
                ELSE msg.type \in {"go", "abort"}]_avars

\* An Options event has received its choice after another goroutine's Go,
\* called while the event waited, was turned away.
C38_Witness ==
  /\ Len(issued) > 0
  /\ issued[Len(issued)] = "Options"
  /\ vmth.pc = "exec"
  /\ vmth.stage = "body"
  /\ aresult = NoResult
  /\ callers["user"].op = "Go"
  /\ callers["user"].at = VMStatePausedOptions
  /\ callers["user"].err =
       VMStateMismatchErr(VMStatePausedOptions, VMStatePaused, VMStateRunning)

----------------------------------------------------------------------------
(* Built-in functions on arguments outside their domain.                   *)

\* The loop is about to execute CALL_FUNC of Number.Modulo with two
\* arguments on the stack, the divisor one that ConvertToInt makes 0.
ModuloByZero ==
  /\ Fetch("CALL_FUNC")
  /\ Cur.a = "Number.Modulo"
  /\ Len(state.stack) >= 3
  /\ LET n == Len(state.stack)
     IN  /\ state.stack[n] = FloatValue(2)
         /\ ConvertToInt(state.stack[n - 1]) = [x |-> 0, err |-> NoErr]
         /\ ConvertToInt(state.stack[n - 2]).err = NoErr

\* C40: CALL_FUNC of a built-in function with arguments outside its domain
\* never crashes; Modulo and Number.Modulo with a divisor that converts to
\* 0 fail with an error that Run returns.
C40_OutOfDomainArgumentsFailWithAnError ==
  /\ [](phase # "panic")
  /\ [][ModuloByZero => phase' = "done" /\ result' \notin {NoErr, Pending}]_vmvars

----------------------------------------------------------------------------
(* SetNode from inside a callback of the async handler.  The handler of    *)
(* the VirtualMachine is the adapter, so the NodeComplete, NodeStart and   *)
(* PrepareForLines that SetNode calls are the adapter's event methods,     *)
(* run on the goroutine that is still inside the Command callback.         *)

SetNodeSteps(v) ==
  /\ vmth' = [vmth EXCEPT !.sn = v]
  /\ UNCHANGED <<callers, continues, aresult>>
  /\ UNCHANGED <<vmvars, stvars, rvars>>

\* The Command callback calls vm.SetNode(n); a node is current, so SetNode
\* begins with Handler.NodeComplete.
SetNodeCall ==
  /\ vmth.pc = "callback"
  /\ vmth.kind = "Command"
  /\ vmth.sn = NoSetNode
  /\ callers["vm"].pc = "idle"
  /\ SetNodeSteps([NoSetNode EXCEPT !.ev = "NodeComplete", !.pc = "exec",
                                    !.calls = vmth.calls])
  /\ UNCHANGED <<astate, msgCh, issued, delivered>>

\* The event method SetNode calls, up to its callback: the transition out
\* of Running and, if it was made, the call of the async handler.
SetNodeEvent ==
  /\ vmth.sn.pc = "exec"
  /\ LET t == stateTransition(astate, VMStateRunning, EventNext(vmth.sn.ev))
     IN  /\ issued' = Append(issued, vmth.sn.ev)
         /\ astate' = t.state
         /\ delivered' = IF t.ok THEN Append(delivered, vmth.sn.ev) ELSE delivered
         /\ SetNodeSteps([vmth.sn EXCEPT !.pc = IF t.ok THEN "callback" ELSE "load"])
  /\ UNCHANGED msgCh

\* stateTransition's a.State() after the failed CompareAndSwap; the event
\* method returns the error and SetNode returns it wrapped.
SetNodeMismatch ==
  /\ vmth.sn.pc = "load"
  /\ SetNodeSteps([vmth.sn EXCEPT !.ev = "returned", !.pc = "",
       !.err = VMStateMismatchErr(astate, VMStateRunning, EventNext(vmth.sn.ev))])
  /\ UNCHANGED <<astate, msgCh, issued, delivered>>

\* The callback of the async handler for SetNode's event returns.
SetNodeCallbackReturn ==
  /\ vmth.sn.pc = "callback"
  /\ callers["vm"].pc = "idle"
  /\ SetNodeSteps([vmth.sn EXCEPT !.pc = "wait"])
  /\ UNCHANGED <<astate, msgCh, issued, delivered>>

\* <-a.msgCh in the waitForGo of SetNode's event.  SetNode returns any
\* error; after NodeComplete it replaces vm.state and goes on to NodeStart,
\* then to PrepareForLines, then returns nil.
SetNodeReceive ==
  /\ vmth.sn.pc = "wait"
  /\ msgCh # <<>>
  /\ msgCh' = Tail(msgCh)
  /\ LET err == waitFor(vmth.sn.ev, Head(msgCh))
     IN  SetNodeSteps(
           IF err # NoAErr
             THEN [vmth.sn EXCEPT !.ev = "returned", !.pc = "", !.err = err]
           ELSE IF vmth.sn.ev = "NodeComplete"
             THEN [vmth.sn EXCEPT !.ev = "NodeStart", !.pc = "exec",
                                  !.entered = TRUE]
           ELSE IF vmth.sn.ev = "NodeStart"
             THEN [vmth.sn EXCEPT !.ev = "PrepareForLines", !.pc = "exec"]
           ELSE [vmth.sn EXCEPT !.ev = "returned", !.pc = "", !.err = NoAErr])
  /\ UNCHANGED <<astate, issued, delivered>>

SetNodeInCallback ==
  \/ SetNodeCall
  \/ SetNodeEvent
  \/ SetNodeMismatch
  \/ SetNodeCallbackReturn
  \/ SetNodeReceive

NextSetNode == VMThread \/ SetNodeInCallback

SpecSetNode == InitAsync /\ [][NextSetNode]_avars

\* SetNode, called in a Command callback before any call of Go, has
\* returned.
SetNodeReturned == vmth.sn.ev = "returned" /\ vmth.sn.calls = 0

\* C36: with the AsyncAdapter installed, the async handler's Command
\* callback can call VirtualMachine.SetNode(n) and then Go: SetNode
\* succeeds, its NodeComplete, NodeStart and PrepareForLines events having
\* been delivered, and the VM continues at instruction 0 of n.
C36_SetNodeInCommandCallbackSucceeds ==
  SetNodeReturned =>
    /\ vmth.sn.err = NoAErr
    /\ vmth.sn.entered
    /\ \E i \in 1 .. Len(delivered) - 3 :
         SubSeq(delivered, i, i + 3) =
           <<"Command", "NodeComplete", "NodeStart", "PrepareForLines">>

====
